---- MODULE Spec2Model ----
(***************************************************************************)
(* Client-side sync manager of NTEOK (SSE + Yjs): page sync, collection    *)
(* metadata sync, and the focus-aware binding between the Tiptap editor    *)
(* and the Yjs document.                                                   *)
(*                                                                         *)
(* The Yjs engine is an imported library.  A Y.Doc is modelled by the set  *)
(* of items (one per Y.Map "set" of the key 'content') it has integrated;  *)
(* the value of the key is the value of the rightmost item of the YATA     *)
(* order.  Time is abstracted: a timer that is armed may fire at any time. *)
(*                                                                         *)
(* The page view (sidebar entries, cover display) is what the metadata     *)
(* handler of the collection stream updates.  The server side of the sync  *)
(* (document sessions, event streams, update ingest) is modelled from the  *)
(* specification of the system.                                            *)
(***************************************************************************)
EXTENDS Integers, Sequences, FiniteSets, TLC

\* ---------------------------------------------------------------- bounds
MaxSyncs == 3
MaxCollSyncs == 2
MaxEditSyncs == 2
MaxItems == 4
MaxMetaSyncs == 2
MaxSubscribes == 3
MaxNotifs == 3
MaxNotifTimers == 2
MaxTimers == 2
MaxCalls == 1
MaxPlainLen == 2
MaxSessions == 2
MaxNow == 2
MaxPages == 3
MaxDeltas == 2

Pages == {"p1", "p2"}
Collections == {"c1", "c2"}
Contents == {"a", "b"}
UnlistedPages == {"p3"}
Fields == {"title", "icon", "coverImage", "coverPosition"}
Conns == {"A", "B", "C"}
Docs == {"d1", "d2"}
Payloads == {"delta", "malformed"}
Passwords == {1, 2}
Salts == {1, 2}
\* 'a', e with acute accent, a lead surrogate, a trail surrogate, U+FEFF
CodeUnits == {97, 233, 55357, 56832, 65279}
Plaintexts == UNION {[1..n -> CodeUnits] : n \in 0..MaxPlainLen}
\* crypto.getRandomValues(new Uint8Array(12))
Ivs == {[i \in 1..12 |-> 0], [i \in 1..12 |-> (17 * i) % 256]}

\* ------------------------------------------------------------- constants
Null == [isNull |-> TRUE]
NoPage == "null"
NoCollection == "null"
Undefined == "undefined"
NoPending == "null"
NoId == <<>>
CONNECTING == "CONNECTING"
OPEN == "OPEN"
CLOSED == "CLOSED"
LocalClient == 2
RemoteClients == {3}
ServerClient == {1}
NoImage == ""
NoIcon == ""
SeedState == {0}

VARIABLES
    currentPageSync,        \* Null or [eventSource |-> id, pageId |-> p]
    currentCollectionSync,  \* Null or [eventSource |-> id, collectionId |-> c]
    ydoc,                   \* Null or [id, pageId, items]
    yXmlFragment,           \* Null or [doc |-> id]
    yMetadata,              \* Null or [doc |-> id]
    currentPageId,          \* state.currentPageId
    currentCollectionId,    \* state.currentCollectionId
    editorPresent,          \* state.editor is not null
    editorContent,          \* state.editor.getHTML()
    editorFocus,            \* state.editor.view.hasFocus()
    bindings,               \* closures made by setupEditorBinding, oldest first
    sources,                \* every page EventSource ever created, by id
    collSources,            \* every collection EventSource ever created, by id
    sent,                   \* sendYjsUpdate requests issued by the handler that ran last
    typed,                  \* content of the last local edit still to be submitted
    ui,                     \* sidebar entries and cover display of the page view
    server,                 \* document sessions and event streams of the sync server
    notif,                  \* duplicate-login detector: its EventSources and timers
    crypto,                 \* CryptoManager: key, salt, password, timers, calls in flight
    http,                   \* web server: session map, page rows, last response
    lastOp                  \* the handler that ran last

pageVars == <<currentPageSync, ydoc, yXmlFragment, yMetadata, currentPageId, sources>>
collVars == <<currentCollectionSync, currentCollectionId, collSources>>
editorVars == <<editorPresent, editorContent, editorFocus, bindings>>
appVars == <<notif, crypto, http>>
otherVars == <<ui, server, notif, crypto, http>>
vars == <<currentPageSync, currentCollectionSync, ydoc, yXmlFragment, yMetadata,
          currentPageId, currentCollectionId, editorPresent, editorContent,
          editorFocus, bindings, sources, collSources, sent, typed, ui, server,
          notif, crypto, http, lastOp>>

\* everything the sync manager, the page view and the sync server hold
syncVars == <<pageVars, collVars, editorVars, sent, typed, ui, server>>

\* ------------------------------------------------------------ Yjs engine
Item(client, clock, origin, val) ==
    [id |-> <<client, clock>>, origin |-> origin, val |-> val]

Ids(items) == {i.id : i \in items}

MaxClientItem(S) == CHOOSE i \in S : \A j \in S : j.id[1] <= i.id[1]

Children(items, oid) == {i \in items : i.origin = oid}

RECURSIVE Rightmost(_, _)
Rightmost(items, cur) ==
    LET ch == Children(items, cur.id)
    IN  IF ch = {} THEN cur ELSE Rightmost(items, MaxClientItem(ch))

\* id of the item that holds the current value of the key, NoId when unset
WinnerId(items) ==
    LET roots == Children(items, NoId)
    IN  IF roots = {} THEN NoId ELSE Rightmost(items, MaxClientItem(roots)).id

\* yMetadata.get('content')
MapGet(items) ==
    LET roots == Children(items, NoId)
    IN  IF roots = {} THEN Undefined ELSE Rightmost(items, MaxClientItem(roots)).val

NextClock(items, client) == Cardinality({i \in items : i.id[1] = client})

\* the item yMetadata.set('content', val) integrates into the local document
MapSetItem(items, val) ==
    Item(LocalClient, NextClock(items, LocalClient), WinnerId(items), val)

\* Y.applyUpdate: integrate the items of the update not yet in the document
ApplyUpdate(items, update) == items \cup update

CausallyClosed(S) == \A i \in S : i.origin = NoId \/ i.origin \in Ids(S)

\* deltas another replica can have produced, given what this document holds:
\* it has seen the snapshot and every remote item, and any causally closed
\* part of the local items
RemoteUpdates(items) ==
    IF Cardinality(items) >= MaxItems THEN {}
    ELSE { {Item(r, NextClock(items, r), WinnerId(S), c)} :
             r \in RemoteClients, c \in Contents,
             S \in {T \in SUBSET items :
                      /\ CausallyClosed(T)
                      /\ \A i \in items : i.id[1] # LocalClient => i \in T} }

\* states the server can push as the initial snapshot
Snapshots == {{Item(k, 0, NoId, c)} : k \in ServerClient, c \in Contents}

\* ----------------------------------------------------------- page state
PageState == [cps |-> currentPageSync, ydoc |-> ydoc, yx |-> yXmlFragment,
              ym |-> yMetadata, cpid |-> currentPageId, src |-> sources]

SetPageState(s) ==
    /\ currentPageSync' = s.cps
    /\ ydoc' = s.ydoc
    /\ yXmlFragment' = s.yx
    /\ yMetadata' = s.ym
    /\ currentPageId' = s.cpid
    /\ sources' = s.src

\* stopPageSync without eventSource.close()
stopPageSyncNoClose(s) ==
    LET s1 == IF s.cps # Null THEN [s EXCEPT !.cps = Null] ELSE s
        s2 == IF s1.ydoc # Null
              THEN [s1 EXCEPT !.ydoc = Null, !.yx = Null, !.ym = Null]
              ELSE s1
    IN  [s2 EXCEPT !.cpid = NoPage]

\* stopPageSync that keeps the Y.Doc
stopPageSyncKeepDoc(s) ==
    LET s1 == IF s.cps # Null
              THEN [s EXCEPT !.src[s.cps.eventSource].readyState = CLOSED,
                             !.src[s.cps.eventSource].inited = FALSE,
                             !.cps = Null]
              ELSE s
    IN  [s1 EXCEPT !.cpid = NoPage]

stopPageSync(s) ==
    LET s1 == IF s.cps # Null
              THEN [s EXCEPT !.src[s.cps.eventSource].readyState = CLOSED,
                             !.src[s.cps.eventSource].inited = FALSE,
                             !.cps = Null]
              ELSE s
        s2 == IF s1.ydoc # Null
              THEN [s1 EXCEPT !.ydoc = Null, !.yx = Null, !.ym = Null]
              ELSE s1
    IN  [s2 EXCEPT !.cpid = NoPage]

NewSource(pageId) ==
    [pageId |-> pageId, readyState |-> CONNECTING, inited |-> FALSE, timer |-> FALSE]

\* startPageSync past the encryption check
openPageSync(s, pageId) ==
    LET s1 == stopPageSync(s)
        id == Len(s1.src) + 1
    IN  [s1 EXCEPT !.cpid = pageId,
                   !.ydoc = [id |-> id, pageId |-> pageId, items |-> {}],
                   !.yx = [doc |-> id],
                   !.ym = [doc |-> id],
                   !.src = Append(s1.src, NewSource(pageId)),
                   !.cps = [eventSource |-> id, pageId |-> pageId]]

\* startPageSync without the encryption check
startPageSyncNoEncCheck(s, pageId, isEncrypted) == openPageSync(s, pageId)

startPageSync(s, pageId, isEncrypted) ==
    IF isEncrypted THEN s ELSE openPageSync(s, pageId)

\* startPageSync creates an EventSource unless the page is encrypted
CanStart(isEncrypted) == isEncrypted \/ Len(sources) < MaxSyncs

\* ------------------------------------------------------------- page view
\* values a metadata-change event carries for a field; icons are Font Awesome
\* class names, which add no text to the title span
MetaValues(field) ==
    CASE field = "title" -> {"T", "U"}
      [] field = "icon" -> {NoIcon, "fa-star"}
      [] field = "coverImage" -> {NoImage, "img"}
      [] field = "coverPosition" -> {20, 50}

\* the sidebar lists every page; the cover is hidden
InitUi ==
    [sidebar |-> [p \in Pages |-> [icon |-> NoIcon, title |-> "T"]],
     cover |-> [shown |-> FALSE, image |-> NoImage, positionY |-> 50]]

\* showCover(data.value, 50)
showCover(cover, image, positionY) ==
    [shown |-> TRUE, image |-> image, positionY |-> positionY]

\* hideCover()
hideCover(cover) == [cover EXCEPT !.shown = FALSE]

\* a cover event is applied whatever page it names
CoverAppliesAlways(pageId) == TRUE

\* data.pageId === state.currentPageId
CoverApplies(pageId) == pageId = currentPageId

\* the two cover branches of the metadata-change handler; imageEl tells
\* whether document.getElementById('page-cover-image') finds an element
SyncCover(cover, pageId, field, value, imageEl) ==
    LET c1 == IF field = "coverImage" /\ CoverApplies(pageId)
              THEN IF value # NoImage THEN showCover(cover, value, 50)
                   ELSE hideCover(cover)
              ELSE cover
    IN  IF field = "coverPosition" /\ CoverApplies(pageId) /\ imageEl
        THEN [c1 EXCEPT !.positionY = value]
        ELSE c1

\* updatePageInSidebar: an entry holds the icon element and the text of its
\* title span; a page without an element in the sidebar is skipped
updatePageInSidebar(sidebar, pageId, field, value) ==
    IF pageId \notin DOMAIN sidebar THEN sidebar
    ELSE IF field = "title" THEN [sidebar EXCEPT ![pageId].title = value]
    ELSE IF field = "icon" THEN [sidebar EXCEPT ![pageId].icon = value]
    ELSE sidebar

\* ----------------------------------------------------------- sync server
\* no document session is open, no connection is subscribed
InitServer ==
    [sessions |-> [d \in Docs |-> Null],
     streams |-> [c \in Conns |-> <<>>],
     subscribes |-> 0,
     submitted |-> 0,
     response |-> Null]

\* the connections subscribed to some document
Subscribed(srv) ==
    {c \in Conns : \E d \in Docs : srv.sessions[d] # Null /\ c \in srv.sessions[d].subs}

\* a session that is reseeded whenever a connection subscribes
OpenSessionReseed(srv, d) ==
    [state |-> SeedState,
     subs |-> IF srv.sessions[d] = Null THEN {} ELSE srv.sessions[d].subs,
     grace |-> FALSE]

\* open(documentId, seedContent): create-if-absent, never reseeds
OpenSession(srv, d) ==
    IF srv.sessions[d] = Null
    THEN [state |-> SeedState, subs |-> {}, grace |-> FALSE]
    ELSE srv.sessions[d]

\* delivery to every subscriber, the origin included
BroadcastToAll(streams, subs, event, exclude) ==
    [c \in Conns |-> IF c \in subs THEN Append(streams[c], event) ELSE streams[c]]

\* broadcast(documentId, event, excludeConnectionId)
Broadcast(streams, subs, event, exclude) ==
    [c \in Conns |-> IF c \in subs \ {exclude} THEN Append(streams[c], event)
                     ELSE streams[c]]

\* a teardown timer started at every departure
StartsTeardownAlways(rest) == TRUE

\* unsubscribe starts a teardown timer if the subscriber set becomes empty
StartsTeardown(rest) == rest = {}

\* every payload is taken for a delta
DecodableAlways(payload) == TRUE

\* the payload decodes to a delta
Decodable(payload) == payload = "delta"

\* --------------------------------------------- duplicate-login detector
\* notificationEventSource = null, nothing created, no timer
InitNotif ==
    [current |-> 0,        \* notificationEventSource: 0 is null, else an index of es
     es |-> <<>>,          \* readyState of every notification EventSource created
     timers |-> 0,         \* pending 5 s reconnect timers
     redirect |-> FALSE,   \* the 1 s redirect timer of handleDuplicateLogin is pending
     left |-> FALSE,       \* the page was replaced by /login.html
     stopped |-> FALSE]    \* disconnected, or duplicate login handled, since the last init

\* connectToNotifications: a new EventSource is stored in the module variable
connectToNotifications(n) ==
    [n EXCEPT !.es = Append(n.es, CONNECTING),
              !.current = Len(n.es) + 1]

\* if (notificationEventSource) { close(); notificationEventSource = null }
closeNotifications(n) ==
    IF n.current = 0 THEN n
    ELSE [n EXCEPT !.es[n.current] = CLOSED, !.current = 0]

\* the onerror handler: it reads the module variable, not the stream that failed;
\* a null module variable makes the handler throw
notifOnError(n) ==
    IF n.current = 0 THEN n
    ELSE IF n.es[n.current] = CLOSED THEN [n EXCEPT !.timers = @ + 1]
    ELSE n

\* the 5 s timer callback
notifReconnect(n) ==
    connectToNotifications(
        IF n.current = 0 THEN n ELSE [n EXCEPT !.es[n.current] = CLOSED])

\* ------------------------------------------------------- CryptoManager
\* Strings are sequences of UTF-16 code units, buffers are sequences of bytes.

\* the null of encryptionKey, salt and password
NoKey == -1

\* 'ENC1:'
Marker == <<69, 78, 67, 49, 58>>

\* String.prototype.startsWith
startsWith(s, prefix) ==
    /\ Len(s) >= Len(prefix)
    /\ SubSeq(s, 1, Len(prefix)) = prefix

\* the character of a base64 digit: A-Z a-z 0-9 + /
B64Char(i) ==
    IF i < 26 THEN 65 + i
    ELSE IF i < 52 THEN 97 + (i - 26)
    ELSE IF i < 62 THEN 48 + (i - 52)
    ELSE IF i = 62 THEN 43 ELSE 47

IsB64Char(c) ==
    \/ c >= 65 /\ c <= 90
    \/ c >= 97 /\ c <= 122
    \/ c >= 48 /\ c <= 57
    \/ c = 43
    \/ c = 47

\* the digit of a base64 character
B64Digit(c) ==
    IF c >= 65 /\ c <= 90 THEN c - 65
    ELSE IF c >= 97 /\ c <= 122 THEN c - 71
    ELSE IF c >= 48 /\ c <= 57 THEN c + 4
    ELSE IF c = 43 THEN 62 ELSE 63

\* btoa over the binary string built from the bytes (arrayBufferToBase64)
RECURSIVE arrayBufferToBase64(_)
arrayBufferToBase64(bytes) ==
    IF Len(bytes) = 0 THEN <<>>
    ELSE IF Len(bytes) = 1 THEN
        <<B64Char((bytes[1] \div 4)), B64Char((bytes[1] % 4) * 16), 61, 61>>
    ELSE IF Len(bytes) = 2 THEN
        <<B64Char((bytes[1] \div 4)),
          B64Char((bytes[1] % 4) * 16 + (bytes[2] \div 16)),
          B64Char((bytes[2] % 16) * 4), 61>>
    ELSE
        <<B64Char((bytes[1] \div 4)),
          B64Char((bytes[1] % 4) * 16 + (bytes[2] \div 16)),
          B64Char((bytes[2] % 16) * 4 + (bytes[3] \div 64)),
          B64Char((bytes[3] % 64))>>
        \o arrayBufferToBase64(SubSeq(bytes, 4, Len(bytes)))

\* atob accepts the string: base64 digits in groups of four, '=' only at the end
ValidBase64(s) ==
    /\ Len(s) % 4 = 0
    /\ \A i \in 1..Len(s) :
          \/ IsB64Char(s[i])
          \/ s[i] = 61 /\ i >= Len(s) - 1 /\ (i = Len(s) \/ s[Len(s)] = 61)

\* atob and the copy of its characters into bytes (base64ToArrayBuffer)
RECURSIVE base64ToArrayBuffer(_)
base64ToArrayBuffer(s) ==
    IF Len(s) = 0 THEN <<>>
    ELSE LET d1 == B64Digit(s[1])
             d2 == B64Digit(s[2])
             rest == base64ToArrayBuffer(SubSeq(s, 5, Len(s)))
         IN IF s[3] = 61 THEN <<d1 * 4 + (d2 \div 16)>>
            ELSE IF s[4] = 61 THEN
                <<d1 * 4 + (d2 \div 16), (d2 % 16) * 16 + (B64Digit(s[3]) \div 4)>>
            ELSE <<d1 * 4 + (d2 \div 16),
                   (d2 % 16) * 16 + (B64Digit(s[3]) \div 4),
                   (B64Digit(s[3]) % 4) * 64 + B64Digit(s[4])>> \o rest

\* surrogate code units: U+D800..U+DBFF lead, U+DC00..U+DFFF trail
IsHighSurrogate(c) == c >= 55296 /\ c <= 56319
IsLowSurrogate(c) == c >= 56320 /\ c <= 57343

\* the UTF-8 bytes of one scalar value
Utf8Bytes(cp) ==
    IF cp < 128 THEN <<cp>>
    ELSE IF cp < 2048 THEN <<192 + (cp \div 64), 128 + (cp % 64)>>
    ELSE IF cp < 65536 THEN
        <<224 + (cp \div 4096), 128 + ((cp \div 64) % 64), 128 + (cp % 64)>>
    ELSE <<240 + (cp \div 262144), 128 + ((cp \div 4096) % 64),
           128 + ((cp \div 64) % 64), 128 + (cp % 64)>>

\* new TextEncoder().encode(s): a surrogate without its partner becomes U+FFFD
RECURSIVE TextEncode(_)
TextEncode(s) ==
    IF Len(s) = 0 THEN <<>>
    ELSE IF IsHighSurrogate(s[1]) /\ Len(s) >= 2 /\ IsLowSurrogate(s[2]) THEN
        Utf8Bytes(65536 + (s[1] - 55296) * 1024 + (s[2] - 56320))
            \o TextEncode(SubSeq(s, 3, Len(s)))
    ELSE IF IsHighSurrogate(s[1]) \/ IsLowSurrogate(s[1]) THEN
        Utf8Bytes(65533) \o TextEncode(Tail(s))
    ELSE Utf8Bytes(s[1]) \o TextEncode(Tail(s))

\* the code units of one scalar value
CodeUnitsOf(cp) ==
    IF cp < 65536 THEN <<cp>>
    ELSE <<55296 + ((cp - 65536) \div 1024), 56320 + ((cp - 65536) % 1024)>>

IsContinuation(b) == b >= 128 /\ b <= 191

\* UTF-8 decoding with replacement: an ill-formed byte becomes U+FFFD
RECURSIVE Utf8Decode(_)
Utf8Decode(b) ==
    IF Len(b) = 0 THEN <<>>
    ELSE IF b[1] < 128 THEN <<b[1]>> \o Utf8Decode(Tail(b))
    ELSE IF b[1] >= 194 /\ b[1] <= 223 /\ Len(b) >= 2 /\ IsContinuation(b[2]) THEN
        CodeUnitsOf((b[1] - 192) * 64 + (b[2] - 128))
            \o Utf8Decode(SubSeq(b, 3, Len(b)))
    ELSE IF b[1] >= 224 /\ b[1] <= 239 /\ Len(b) >= 3
            /\ IsContinuation(b[2]) /\ IsContinuation(b[3]) THEN
        CodeUnitsOf((b[1] - 224) * 4096 + (b[2] - 128) * 64 + (b[3] - 128))
            \o Utf8Decode(SubSeq(b, 4, Len(b)))
    ELSE IF b[1] >= 240 /\ b[1] <= 244 /\ Len(b) >= 4
            /\ IsContinuation(b[2]) /\ IsContinuation(b[3]) /\ IsContinuation(b[4]) THEN
        CodeUnitsOf((b[1] - 240) * 262144 + (b[2] - 128) * 4096
                        + (b[3] - 128) * 64 + (b[4] - 128))
            \o Utf8Decode(SubSeq(b, 5, Len(b)))
    ELSE <<65533>> \o Utf8Decode(Tail(b))

\* new TextDecoder().decode(b): ignoreBOM is false, so a leading EF BB BF is
\* taken as a byte order mark and left out of the result
TextDecode(b) ==
    IF Len(b) >= 3 /\ SubSeq(b, 1, 3) = <<239, 187, 191>>
    THEN Utf8Decode(SubSeq(b, 4, Len(b)))
    ELSE Utf8Decode(b)

RECURSIVE SumBytes(_)
SumBytes(b) == IF Len(b) = 0 THEN 0 ELSE (b[1] + SumBytes(Tail(b))) % 256

\* PBKDF2 (crypto.subtle.deriveKey): a fixed function of password and salt
deriveKeyFromPassword(password, salt) == ((password * 31 + salt * 7 + 1) % 256)

\* the 16-byte authentication tag of AES-GCM
GcmTag(key, iv, body) ==
    [i \in 1..16 |-> ((SumBytes(body) + 3 * key + SumBytes(iv) + i) % 256)]

\* crypto.subtle.encrypt with AES-GCM: ciphertext of the length of the data,
\* followed by the tag; invertible under the same key and iv
GcmEncrypt(key, iv, data) ==
    LET body == [i \in 1..Len(data) |-> ((data[i] + key + SumBytes(iv) + i) % 256)]
    IN body \o GcmTag(key, iv, body)

\* crypto.subtle.decrypt with AES-GCM: rejects when the tag does not verify
GcmDecrypt(key, iv, ct) ==
    IF Len(ct) < 16 THEN [ok |-> FALSE, error |-> "OperationError"]
    ELSE LET body == SubSeq(ct, 1, Len(ct) - 16)
             tag == SubSeq(ct, Len(ct) - 15, Len(ct))
         IN IF tag # GcmTag(key, iv, body)
            THEN [ok |-> FALSE, error |-> "OperationError"]
            ELSE [ok |-> TRUE,
                  value |-> [i \in 1..Len(body) |->
                                ((body[i] + 1024 - key - SumBytes(iv) - i) % 256)]]

KeyNotInitialized == [ok |-> FALSE, error |-> "key-not-initialized"]

\* CryptoManager.encrypt
encrypt(encryptionKey, iv, plaintext) ==
    IF encryptionKey = NoKey THEN KeyNotInitialized
    ELSE LET data == TextEncode(plaintext)
             ciphertext == GcmEncrypt(encryptionKey, iv, data)
             combined == iv \o ciphertext
         IN [ok |-> TRUE, value |-> Marker \o arrayBufferToBase64(combined)]

\* CryptoManager.decrypt
decrypt(encryptionKey, encryptedBase64) ==
    IF encryptionKey = NoKey THEN KeyNotInitialized
    ELSE LET dataToDecrypt == IF startsWith(encryptedBase64, Marker)
                              THEN SubSeq(encryptedBase64, 6, Len(encryptedBase64))
                              ELSE encryptedBase64
         IN IF ~ValidBase64(dataToDecrypt)
            THEN [ok |-> FALSE, error |-> "InvalidCharacterError"]
            ELSE LET combined == base64ToArrayBuffer(dataToDecrypt)
                     iv == SubSeq(combined, 1, 12)
                     ciphertext == SubSeq(combined, 13, Len(combined))
                     decrypted == GcmDecrypt(encryptionKey, iv, ciphertext)
                 IN IF ~decrypted.ok THEN decrypted
                    ELSE [ok |-> TRUE, value |-> TextDecode(decrypted.value)]

\* CryptoManager.isEncrypted, for a string
CryptoIsEncrypted(data) ==
    IF Len(data) = 0 THEN FALSE
    ELSE IF startsWith(data, Marker) THEN TRUE
    ELSE /\ Len(data) > 20
         /\ \E n \in 1..Len(data) :
               /\ \A i \in 1..n : IsB64Char(data[i])
               /\ \A i \in (n + 1)..Len(data) : data[i] = 61

\* the CryptoManager after its constructor
InitCrypto ==
    [encryptionKey |-> NoKey,
     salt |-> NoKey,
     password |-> NoKey,
     inactivityTimer |-> 0,   \* 0 is null, else the id of the timer armed last
     timers |-> {},           \* timers armed and neither cleared nor fired
     calls |-> {},            \* initializeKey calls waiting for the derived key
     fromStale |-> FALSE,     \* the key was stored by a call begun before the last clearKey
     logout |-> FALSE,        \* the logout request of handleInactivityTimeout is in flight
     input |-> Null,          \* Null or [text |-> the text the page works on]
     stored |-> Null,         \* the ciphertext held, with its plaintext and key
     out |-> Null]            \* what encrypt or decrypt returned or threw, if it ran last

stopInactivityTimer(c) ==
    IF c.inactivityTimer = 0 THEN c
    ELSE [c EXCEPT !.timers = @ \ {c.inactivityTimer}, !.inactivityTimer = 0]

\* setTimeout: a timer id that no armed timer has
FreshTimer(c) ==
    CHOOSE i \in 1..MaxTimers : i \notin c.timers /\ \A j \in 1..(i - 1) : j \in c.timers

armInactivityTimer(c) ==
    [c EXCEPT !.timers = @ \cup {FreshTimer(c)}, !.inactivityTimer = FreshTimer(c)]

\* a reset that arms a timer without cancelling the previous one
resetInactivityTimerNoStop(c) == armInactivityTimer(c)

resetInactivityTimer(c) == armInactivityTimer(stopInactivityTimer(c))

clearKey(c) ==
    stopInactivityTimer([c EXCEPT !.encryptionKey = NoKey, !.salt = NoKey,
                                  !.password = NoKey, !.fromStale = FALSE])

\* initializeKey after the await: key, salt and password are stored, the timer reset
initializeKeyResume(c, call) ==
    resetInactivityTimer(
        [c EXCEPT !.encryptionKey = deriveKeyFromPassword(call.password, call.salt),
                  !.salt = call.salt,
                  !.password = call.password,
                  !.fromStale = call.stale,
                  !.calls = @ \ {call}])

\* ----------------------------------------------------------- web server
\* SESSION_TTL_MS, in ticks of the server clock
SESSION_TTL_MS == 2

Users == {1, 2, 3}
PageIds == {"pg1", "pg2", "pg3"}
\* the collections and their owners; "c3" is the default collection of user 3
CollectionOwner == [c1 |-> 1, c2 |-> 2, c3 |-> 3]
PageContents == {"x", "y"}
NoParent == "none"
\* token strings; the empty one stands for a missing header or cookie
NoToken == <<>>
Tokens == {NoToken, <<1>>, <<2>>, <<1, 1>>}
SafeMethods == {"GET", "HEAD", "OPTIONS"}
LoginPath == <<"api", "auth", "login">>
RegisterPath == <<"api", "auth", "register">>
LogoutPath == <<"api", "auth", "logout">>
PagesPath == <<"api", "pages">>
PagePath(id) == <<"api", "pages", id>>

\* the server after initDb, with two users registered and a page each
InitHttp ==
    [sessions |-> <<>>,      \* by session id: [userId, expiresAt, present]
     now |-> 0,              \* Date.now()
     users |-> {1, 2},       \* rows of users
     pages |-> {[id |-> "pg1", userId |-> 1, collectionId |-> "c1",
                 parentId |-> NoParent, content |-> "x"],
                [id |-> "pg2", userId |-> 2, collectionId |-> "c2",
                 parentId |-> NoParent, content |-> "x"]},
     req |-> Null,           \* the request answered last
     res |-> Null]           \* its response: status, the handler that ran, the user, the rows

\* crypto.timingSafeEqual throws when the buffers differ in length
verifyCsrfToken(tokenFromHeader, tokenFromCookie) ==
    IF tokenFromHeader = NoToken \/ tokenFromCookie = NoToken THEN "false"
    ELSE IF Len(tokenFromHeader) # Len(tokenFromCookie) THEN "throws"
    ELSE IF tokenFromHeader = tokenFromCookie THEN "true"
    ELSE "false"

\* csrfMiddleware, given req.path as the middleware sees it: 0 is next(),
\* 500 is the answer of the default error handler to a thrown error
csrfMiddleware(method, path, header, cookie) ==
    IF method \in SafeMethods THEN 0
    ELSE IF path = LoginPath \/ path = RegisterPath THEN 0
    ELSE IF verifyCsrfToken(header, cookie) = "true" THEN 0
    ELSE IF verifyCsrfToken(header, cookie) = "false" THEN 403
    ELSE 500

\* app.use(prefix, middleware): req.path has the mount point taken off
Mount(prefix, path) == SubSeq(path, Len(prefix) + 1, Len(path))

\* app.use("/api", csrfMiddleware)
CsrfStage(r) ==
    IF Len(r.path) >= 1 /\ r.path[1] = "api"
    THEN csrfMiddleware(r.method, Mount(<<"api">>, r.path), r.header, r.csrfCookie)
    ELSE 0

\* an expiry test that lets a session live through the instant it expires
ExpiredLate(h, sid) == h.sessions[sid].expiresAt < h.now

\* session.expiresAt <= Date.now()
Expired(h, sid) == h.sessions[sid].expiresAt <= h.now

\* the session a cookie names, 0 for none: getSessionFromRequest's result
getSessionFromRequest(h, sid) ==
    IF sid = 0 THEN 0
    ELSE IF sid \notin DOMAIN h.sessions THEN 0
    ELSE IF ~h.sessions[sid].present THEN 0
    ELSE IF Expired(h, sid) THEN 0
    ELSE sid

\* getSessionFromRequest's effect on the map: an expired entry is deleted
PurgeSession(h, sid) ==
    IF sid \in DOMAIN h.sessions /\ h.sessions[sid].present /\ Expired(h, sid)
    THEN [h EXCEPT !.sessions[sid].present = FALSE]
    ELSE h

createSession(h, userId) ==
    [h EXCEPT !.sessions = Append(@, [userId |-> userId,
                                      expiresAt |-> h.now + SESSION_TTL_MS,
                                      present |-> TRUE])]

\* rows of pages WHERE id = ?, whoever owns them
AnyRows(h, id, userId) == {row \in h.pages : row.id = id}

\* rows of pages WHERE id = ? AND user_id = ?
OwnRows(h, id, userId) == {row \in h.pages : row.id = id /\ row.userId = userId}

\* rows a DELETE takes along: ON DELETE CASCADE over parent_id
RECURSIVE Cascade(_, _)
Cascade(pages, ids) ==
    LET more == {row.id : row \in {r \in pages : r.parentId \in ids}}
    IN IF more \subseteq ids THEN ids ELSE Cascade(pages, ids \cup more)

Respond(status, handler, userId, rows) ==
    [status |-> status, handler |-> handler, userId |-> userId, rows |-> rows]

Request(method, path, sid, t) ==
    [method |-> method, path |-> path, sid |-> sid,
     header |-> t[1], csrfCookie |-> t[2]]

\* authMiddleware: the user of the session, 0 when it answers 401
authMiddleware(h, r) ==
    IF getSessionFromRequest(h, r.sid) = 0 THEN 0
    ELSE h.sessions[r.sid].userId

\* POST /api/auth/login, with the outcome of the password check
loginHandler(h, userId, passwordOk) ==
    IF userId \notin h.users \/ ~passwordOk
    THEN [h |-> h, res |-> Respond(401, "login", 0, {})]
    ELSE [h |-> createSession(h, userId), res |-> Respond(200, "login", userId, {})]

\* POST /api/auth/register
registerHandler(h, userId) ==
    IF userId \in h.users
    THEN [h |-> h, res |-> Respond(409, "register", 0, {})]
    ELSE [h |-> createSession([h EXCEPT !.users = @ \cup {userId}], userId),
          res |-> Respond(201, "register", userId, {})]

\* POST /api/auth/logout
logoutHandler(h, r) ==
    [h |-> IF getSessionFromRequest(h, r.sid) = 0 THEN PurgeSession(h, r.sid)
           ELSE [h EXCEPT !.sessions[r.sid].present = FALSE],
     res |-> Respond(200, "logout", 0, {})]

\* GET /api/pages
listPagesHandler(h, userId) ==
    [h |-> h,
     res |-> Respond(200, "list", userId, {row \in h.pages : row.userId = userId})]

\* GET /api/pages/:id
getPageHandler(h, userId, id) ==
    IF OwnRows(h, id, userId) = {}
    THEN [h |-> h, res |-> Respond(404, "get", userId, {})]
    ELSE [h |-> h, res |-> Respond(200, "get", userId, OwnRows(h, id, userId))]

\* POST /api/pages; id is the one generatePageId makes
createPageHandler(h, userId, id, collectionId, parentId, content) ==
    IF collectionId = "none"
    THEN [h |-> h, res |-> Respond(400, "create", userId, {})]
    ELSE IF CollectionOwner[collectionId] # userId
    THEN [h |-> h, res |-> Respond(404, "create", userId, {})]
    ELSE IF parentId # NoParent /\ OwnRows(h, parentId, userId) = {}
    THEN [h |-> h, res |-> Respond(400, "create", userId, {})]
    ELSE IF parentId # NoParent
            /\ \E row \in OwnRows(h, parentId, userId) : row.collectionId # collectionId
    THEN [h |-> h, res |-> Respond(400, "create", userId, {})]
    ELSE LET row == [id |-> id, userId |-> userId, collectionId |-> collectionId,
                     parentId |-> parentId, content |-> content]
         IN [h |-> [h EXCEPT !.pages = @ \cup {row}],
             res |-> Respond(201, "create", userId, {row})]

\* PUT /api/pages/:id; content "none" is a body with nothing to update
updatePageHandler(h, userId, id, content) ==
    IF content = "none"
    THEN [h |-> h, res |-> Respond(400, "update", userId, {})]
    ELSE IF OwnRows(h, id, userId) = {}
    THEN [h |-> h, res |-> Respond(404, "update", userId, {})]
    ELSE LET rows == {[row EXCEPT !.content = content] : row \in OwnRows(h, id, userId)}
         IN [h |-> [h EXCEPT !.pages = (@ \ OwnRows(h, id, userId)) \cup rows],
             res |-> Respond(200, "update", userId, rows)]

\* DELETE /api/pages/:id
deletePageHandler(h, userId, id) ==
    IF OwnRows(h, id, userId) = {}
    THEN [h |-> h, res |-> Respond(404, "delete", userId, {})]
    ELSE [h |-> [h EXCEPT !.pages = {row \in @ : row.id \notin Cascade(h.pages, {id})}],
          res |-> Respond(200, "delete", userId, {})]

\* what the CSRF stage answers when it does not call next()
Refused(h, r) == [h |-> h, res |-> Respond(CsrfStage(r), "none", 0, {})]

\* what authMiddleware answers when there is no session
Unauthorized(h, r) ==
    [h |-> PurgeSession(h, r.sid), res |-> Respond(401, "none", 0, {})]



Init ==
    /\ currentPageSync = Null
    /\ currentCollectionSync = Null
    /\ ydoc = Null
    /\ yXmlFragment = Null
    /\ yMetadata = Null
    /\ currentPageId = NoPage
    /\ currentCollectionId = NoCollection
    /\ editorPresent \in BOOLEAN
    /\ editorContent = "a"
    /\ editorFocus = FALSE
    /\ bindings = <<>>
    /\ sources = <<>>
    /\ collSources = <<>>
    /\ sent = {}
    /\ typed = Undefined
    /\ ui = InitUi
    /\ server = InitServer
    /\ notif = InitNotif
    /\ crypto = InitCrypto
    /\ http = InitHttp
    /\ lastOp = "init"

\* an update handler that sends every update, whatever its origin
OnDocUpdateAnyOrigin(snt, pageId, update, origin) ==
    snt \cup {[pageId |-> pageId, update |-> update]}

\* ydoc.on('update', (update, origin) => ...) registered by startPageSync
OnDocUpdate(snt, pageId, update, origin) ==
    IF origin # "remote" THEN snt \cup {[pageId |-> pageId, update |-> update]}
    ELSE snt

\* the sync is Live: snapshot applied and editor bound on an open stream
Live ==
    /\ currentPageSync # Null
    /\ sources[currentPageSync.eventSource].readyState = OPEN
    /\ sources[currentPageSync.eventSource].inited
    /\ ydoc # Null
    /\ bindings # <<>>

StartPageSync(pageId, isEncrypted) ==
    /\ CanStart(isEncrypted)
    /\ SetPageState(startPageSync(PageState, pageId, isEncrypted))
    /\ typed' = IF isEncrypted THEN typed ELSE Undefined
    /\ lastOp' = "startPageSync"
    /\ UNCHANGED otherVars
    /\ sent' = {}
    /\ UNCHANGED <<collVars, editorVars>>

StopPageSync ==
    /\ SetPageState(stopPageSync(PageState))
    /\ typed' = Undefined
    /\ lastOp' = "stopPageSync"
    /\ UNCHANGED otherVars
    /\ sent' = {}
    /\ UNCHANGED <<collVars, editorVars>>

\* the EventSource connects
EsOpen(id) ==
    /\ sources[id].readyState = CONNECTING
    /\ sources' = [sources EXCEPT ![id].readyState = OPEN]
    /\ lastOp' = "open"
    /\ UNCHANGED otherVars
    /\ UNCHANGED <<currentPageSync, ydoc, yXmlFragment, yMetadata, currentPageId,
                   collVars, editorVars, typed>>
    /\ sent' = {}

\* setupEditorBinding, given the items of ydoc after the snapshot was applied
BindingWrites == editorPresent /\ ydoc # Null /\ yMetadata # Null

\* eventSource.addEventListener('init', ...)
EsInit(id, snapshot) ==
    /\ sources[id].readyState = OPEN
    /\ ~sources[id].inited
    /\ sources' = [sources EXCEPT ![id].inited = TRUE]
    /\ IF ydoc = Null
       THEN UNCHANGED <<ydoc, bindings>> /\ sent' = {}
       ELSE LET fresh == snapshot \ ydoc.items
                items1 == ApplyUpdate(ydoc.items, snapshot)
                sent1 == IF fresh # {}
                         THEN OnDocUpdate({}, ydoc.pageId, fresh, Undefined)
                         ELSE {}
                item == MapSetItem(items1, editorContent)
            IN  IF BindingWrites
                THEN /\ ydoc' = [ydoc EXCEPT !.items = items1 \cup {item}]
                     /\ sent' = OnDocUpdate(sent1, ydoc.pageId, {item}, Undefined)
                     /\ bindings' = Append(bindings,
                                           [pending |-> NoPending, timer |-> 0])
                ELSE /\ ydoc' = [ydoc EXCEPT !.items = items1]
                     /\ sent' = sent1
                     /\ bindings' = bindings
    /\ lastOp' = "init"
    /\ UNCHANGED otherVars
    /\ UNCHANGED <<currentPageSync, yXmlFragment, yMetadata, currentPageId,
                   collVars, editorPresent, editorContent, editorFocus, typed>>

\* a handler that merges only when the editor has no focus
RemoteMergeUnlessFocused(items, update, hasFocus) ==
    IF hasFocus THEN items ELSE ApplyUpdate(items, update)

\* Y.applyUpdate(ydoc, update, 'remote') of the yjs-update handler
RemoteMerge(items, update, hasFocus) == ApplyUpdate(items, update)

\* eventSource.addEventListener('yjs-update', ...)
EsYjsUpdate(id, update) ==
    /\ sources[id].readyState = OPEN
    /\ sources[id].inited
    /\ IF ydoc = Null
       THEN UNCHANGED <<ydoc, editorContent, bindings>> /\ sent' = {}
       ELSE LET items1 == RemoteMerge(ydoc.items, update, editorFocus)
                fresh == items1 \ ydoc.items
                content == MapGet(items1)
            IN  /\ ydoc' = [ydoc EXCEPT !.items = items1]
                /\ sent' = IF fresh # {}
                           THEN OnDocUpdate({}, ydoc.pageId, fresh, "remote")
                           ELSE {}
                /\ IF content # Undefined /\ editorPresent /\ content # editorContent
                   THEN IF editorFocus
                        THEN /\ editorContent' = editorContent
                             /\ bindings' =
                                  IF bindings # <<>>
                                  THEN [bindings EXCEPT ![Len(bindings)].pending = content]
                                  ELSE bindings
                        ELSE /\ editorContent' = content
                             /\ bindings' = bindings
                   ELSE UNCHANGED <<editorContent, bindings>>
    /\ lastOp' = "yjs-update"
    /\ UNCHANGED otherVars
    /\ UNCHANGED <<currentPageSync, yXmlFragment, yMetadata, currentPageId, sources,
                   collVars, editorPresent, editorFocus, typed>>

\* eventSource.onerror: close, and retry after 3 seconds
EsError(id) ==
    /\ sources[id].readyState # CLOSED
    /\ sources' = [sources EXCEPT ![id].readyState = CLOSED, ![id].inited = FALSE,
                                   ![id].timer = TRUE]
    /\ lastOp' = "error"
    /\ UNCHANGED otherVars
    /\ UNCHANGED <<currentPageSync, ydoc, yXmlFragment, yMetadata, currentPageId,
                   collVars, editorVars, typed>>
    /\ sent' = {}

ReconnectNever(id) == FALSE

ReconnectAlways(id) == TRUE

\* whether the timer callback of onerror calls startPageSync
ReconnectWanted(id) == currentPageId = sources[id].pageId

\* the setTimeout callback of onerror
ReconnectTimer(id) ==
    /\ sources[id].timer
    /\ LET s == [PageState EXCEPT !.src[id].timer = FALSE]
       IN  IF ReconnectWanted(id)
           THEN /\ CanStart(FALSE)
                /\ SetPageState(startPageSync(s, sources[id].pageId, FALSE))
                /\ typed' = Undefined
           ELSE /\ SetPageState(s)
                /\ typed' = typed
    /\ lastOp' = "reconnectTimer"
    /\ UNCHANGED otherVars
    /\ sent' = {}
    /\ UNCHANGED <<collVars, editorVars>>

\* the editor gains input focus
Focus ==
    /\ editorPresent
    /\ ~editorFocus
    /\ editorFocus' = TRUE
    /\ lastOp' = "focus"
    /\ UNCHANGED otherVars
    /\ sent' = {}
    /\ UNCHANGED <<pageVars, collVars, editorPresent, editorContent, bindings, typed>>

\* content shown after the blur handlers of all bindings ran, oldest first
RECURSIVE AfterBlur(_, _, _)
AfterBlur(bs, k, content) ==
    IF k > Len(bs) THEN content
    ELSE AfterBlur(bs, k + 1,
                   IF bs[k].pending # NoPending THEN bs[k].pending ELSE content)

\* a blur handler that leaves its pending slot as it is
KeepPending(b) == b

\* remoteUpdatePending = null of the blur handler
ClearPending(b) == [b EXCEPT !.pending = NoPending]

\* state.editor.on('blur', ...) of every binding
Blur ==
    /\ editorPresent
    /\ editorFocus
    /\ editorFocus' = FALSE
    /\ editorContent' = AfterBlur(bindings, 1, editorContent)
    /\ bindings' = [k \in DOMAIN bindings |-> ClearPending(bindings[k])]
    /\ lastOp' = "blur"
    /\ UNCHANGED otherVars
    /\ sent' = {}
    /\ UNCHANGED <<pageVars, collVars, editorPresent, typed>>

\* pending debounce callbacks of one binding after an editor update event that
\* skips clearTimeout
ArmDebounceNoClear(n) == n + 1

\* pending debounce callbacks of one binding after an editor update event:
\* clearTimeout(updateTimeout) cancels the earlier one, setTimeout arms one
ArmDebounce(n) == 1

\* the user edits: state.editor.on('update', ...) of every binding arms its timer
LocalEdit(c) ==
    /\ editorPresent
    /\ editorFocus
    /\ c # editorContent
    /\ ydoc # Null => Cardinality(ydoc.items) < MaxItems
    /\ editorContent' = c
    /\ bindings' = [k \in DOMAIN bindings |->
                        [bindings[k] EXCEPT !.timer = ArmDebounce(bindings[k].timer)]]
    /\ typed' = IF Live THEN c ELSE typed
    /\ lastOp' = "localEdit"
    /\ UNCHANGED otherVars
    /\ sent' = {}
    /\ UNCHANGED <<pageVars, collVars, editorPresent, editorFocus>>

\* the debounce callback of binding k (200 ms after the last edit)
DebounceFire(k) ==
    /\ bindings[k].timer > 0
    /\ bindings' = [bindings EXCEPT ![k].timer = bindings[k].timer - 1]
    /\ IF yMetadata = Null \/ ydoc = Null
       THEN UNCHANGED <<ydoc, typed>> /\ sent' = {}
       ELSE LET newContent == editorContent
                oldContent == MapGet(ydoc.items)
                item == MapSetItem(ydoc.items, newContent)
            IN  IF newContent # oldContent
                THEN /\ ydoc' = [ydoc EXCEPT !.items = ydoc.items \cup {item}]
                     /\ sent' = OnDocUpdate({}, ydoc.pageId, {item}, Undefined)
                     /\ typed' = IF newContent = typed THEN Undefined ELSE typed
                ELSE /\ UNCHANGED ydoc
                     /\ sent' = {}
                     /\ typed' = IF oldContent = typed THEN Undefined ELSE typed
    /\ lastOp' = "debounce"
    /\ UNCHANGED otherVars
    /\ UNCHANGED <<currentPageSync, yXmlFragment, yMetadata, currentPageId, sources,
                   collVars, editorPresent, editorContent, editorFocus>>

\* a failure branch that tears the page sync down
sendYjsUpdateFailedStops(s) == stopPageSync(s)

\* sendYjsUpdate with a response that is not ok, or with a fetch that throws:
\* console.error only
sendYjsUpdateFailed(s) == s

\* the request r of sendYjsUpdate fails
SendFailed(r) ==
    /\ r \in sent
    /\ SetPageState(sendYjsUpdateFailed(PageState))
    /\ sent' = sent \ {r}
    /\ lastOp' = "sendFailed"
    /\ UNCHANGED otherVars
    /\ UNCHANGED <<collVars, editorVars, typed>>

\* the 'init' handler with data that does not parse: the catch logs, and
\* setupEditorBinding is not reached
EsInitMalformed(id) ==
    /\ sources[id].readyState = OPEN
    /\ ~sources[id].inited
    /\ sources' = [sources EXCEPT ![id].inited = TRUE]
    /\ lastOp' = "initMalformed"
    /\ UNCHANGED otherVars
    /\ sent' = {}
    /\ UNCHANGED <<currentPageSync, ydoc, yXmlFragment, yMetadata, currentPageId,
                   collVars, editorVars, typed>>

\* the 'yjs-update' handler with data that does not parse: the catch logs
EsYjsUpdateMalformed(id) ==
    /\ sources[id].readyState = OPEN
    /\ sources[id].inited
    /\ lastOp' = "yjs-updateMalformed"
    /\ UNCHANGED otherVars
    /\ sent' = {}
    /\ UNCHANGED <<pageVars, collVars, editorVars, typed>>

\* ------------------------------------------------------ collection sync
CollState == [ccs |-> currentCollectionSync, ccid |-> currentCollectionId,
              src |-> collSources]

SetCollState(s) ==
    /\ currentCollectionSync' = s.ccs
    /\ currentCollectionId' = s.ccid
    /\ collSources' = s.src

stopCollectionSync(s) ==
    LET s1 == IF s.ccs # Null
              THEN [s EXCEPT !.src[s.ccs.eventSource].readyState = CLOSED,
                             !.ccs = Null]
              ELSE s
    IN  [s1 EXCEPT !.ccid = NoCollection]

startCollectionSync(s, collectionId) ==
    LET s1 == stopCollectionSync(s)
        id == Len(s1.src) + 1
    IN  [s1 EXCEPT !.ccid = collectionId,
                   !.src = Append(s1.src, [collectionId |-> collectionId,
                                           readyState |-> CONNECTING]),
                   !.ccs = [eventSource |-> id, collectionId |-> collectionId]]

CanStartColl == Len(collSources) < MaxCollSyncs

StartCollectionSync(collectionId) ==
    /\ CanStartColl
    /\ SetCollState(startCollectionSync(CollState, collectionId))
    /\ lastOp' = "startCollectionSync"
    /\ UNCHANGED otherVars
    /\ sent' = {}
    /\ UNCHANGED <<pageVars, editorVars, typed>>

StopCollectionSync ==
    /\ SetCollState(stopCollectionSync(CollState))
    /\ lastOp' = "stopCollectionSync"
    /\ UNCHANGED otherVars
    /\ sent' = {}
    /\ UNCHANGED <<pageVars, editorVars, typed>>

CollEsOpen(id) ==
    /\ collSources[id].readyState = CONNECTING
    /\ collSources' = [collSources EXCEPT ![id].readyState = OPEN]
    /\ lastOp' = "collOpen"
    /\ UNCHANGED otherVars
    /\ sent' = {}
    /\ UNCHANGED <<currentCollectionSync, currentCollectionId, pageVars, editorVars, typed>>

\* the collection eventSource.onerror: close only
CollEsError(id) ==
    /\ collSources[id].readyState # CLOSED
    /\ collSources' = [collSources EXCEPT ![id].readyState = CLOSED]
    /\ lastOp' = "collError"
    /\ UNCHANGED otherVars
    /\ sent' = {}
    /\ UNCHANGED <<currentCollectionSync, currentCollectionId, pageVars, editorVars, typed>>

\* the 'metadata-change' handler of collection stream id
MetadataChange(id, pageId, field, value, imageEl) ==
    /\ collSources[id].readyState = OPEN
    /\ ui' = [sidebar |-> updatePageInSidebar(ui.sidebar, pageId, field, value),
              cover |-> SyncCover(ui.cover, pageId, field, value, imageEl)]
    /\ lastOp' = "metadata-change"
    /\ sent' = {}
    /\ UNCHANGED <<pageVars, collVars, editorVars, typed, server, appVars>>

\* ------------------------------------------------------- window events
OnlineRestartsPage == currentPageId # NoPage /\ currentPageSync = Null
OnlineRestartsColl == currentCollectionId # NoCollection /\ currentCollectionSync = Null

HandleOnline ==
    /\ IF OnlineRestartsPage
       THEN /\ CanStart(FALSE)
            /\ SetPageState(startPageSync(PageState, currentPageId, FALSE))
            /\ typed' = Undefined
       ELSE UNCHANGED <<pageVars, typed>>
    /\ IF OnlineRestartsColl
       THEN /\ CanStartColl
            /\ SetCollState(startCollectionSync(CollState, currentCollectionId))
       ELSE UNCHANGED collVars
    /\ lastOp' = "online"
    /\ UNCHANGED otherVars
    /\ sent' = {}
    /\ UNCHANGED editorVars

HandleOffline ==
    /\ lastOp' = "offline"
    /\ UNCHANGED otherVars
    /\ sent' = {}
    /\ UNCHANGED <<pageVars, collVars, editorVars, typed>>

\* a handler that restarts the page sync whatever the state of its stream
VisibleRestartsPageAlways == currentPageSync # Null

VisibleRestartsPage ==
    /\ currentPageSync # Null
    /\ sources[currentPageSync.eventSource].readyState # OPEN

VisibleRestartsColl ==
    /\ currentCollectionSync # Null
    /\ collSources[currentCollectionSync.eventSource].readyState # OPEN

HandleVisibilityChange(hidden) ==
    /\ IF ~hidden /\ VisibleRestartsPage
       THEN /\ CanStart(FALSE)
            /\ SetPageState(startPageSync(PageState, currentPageSync.pageId, FALSE))
            /\ typed' = Undefined
       ELSE UNCHANGED <<pageVars, typed>>
    /\ IF ~hidden /\ VisibleRestartsColl
       THEN /\ CanStartColl
            /\ SetCollState(startCollectionSync(CollState,
                                                currentCollectionSync.collectionId))
       ELSE UNCHANGED collVars
    /\ lastOp' = IF hidden THEN "hidden" ELSE "visible"
    /\ UNCHANGED otherVars
    /\ sent' = {}
    /\ UNCHANGED editorVars

\* ---------------------------------------------------- sync server steps
\* subscribe(documentId, connectionId) -> snapshot; the streams record the
\* delta events: the presence events (user-joined, user-left), which the
\* client only logs, are left out
Subscribe(c, d) ==
    /\ c \notin Subscribed(server)
    /\ server.subscribes < MaxSubscribes
    /\ LET sess == OpenSession(server, d)
       IN  server' = [server EXCEPT
               !.sessions[d] = [sess EXCEPT !.subs = sess.subs \cup {c},
                                            !.grace = FALSE],
               !.streams[c] = <<>>,
               !.subscribes = server.subscribes + 1,
               !.response = [to |-> c, doc |-> d, status |-> "ok",
                             snapshot |-> sess.state]]
    /\ lastOp' = "subscribe"
    /\ sent' = {}
    /\ UNCHANGED <<pageVars, collVars, editorVars, typed, ui, appVars>>

\* unsubscribe(connectionId)
Unsubscribe(c) ==
    /\ \E d \in Docs :
          /\ server.sessions[d] # Null
          /\ c \in server.sessions[d].subs
          /\ LET sess == server.sessions[d]
                 rest == sess.subs \ {c}
             IN  server' = [server EXCEPT
                     !.sessions[d] = [sess EXCEPT !.subs = rest,
                                                  !.grace = StartsTeardown(rest)],
                     !.streams[c] = <<>>,
                     !.response = Null]
    /\ lastOp' = "unsubscribe"
    /\ sent' = {}
    /\ UNCHANGED <<pageVars, collVars, editorVars, typed, ui, appVars>>

\* the teardown timer of an idle session runs out
GraceExpire(d) ==
    /\ server.sessions[d] # Null
    /\ server.sessions[d].grace
    /\ server' = [server EXCEPT !.sessions[d] = Null, !.response = Null]
    /\ lastOp' = "graceExpire"
    /\ sent' = {}
    /\ UNCHANGED <<pageVars, collVars, editorVars, typed, ui, appVars>>

\* the update ingest endpoint: connection c submits payload for document d
Ingest(c, d, payload, authorized) ==
    /\ server.sessions[d] # Null
    /\ server.submitted < MaxDeltas
    /\ LET n == server.submitted + 1
           sess == server.sessions[d]
           delta == [type |-> "delta", delta |-> n, origin |-> c]
           reply(status) == [to |-> c, doc |-> d, status |-> status]
       IN  IF ~authorized
           THEN server' = [server EXCEPT !.submitted = n,
                                         !.response = reply("forbidden")]
           ELSE IF ~Decodable(payload)
           THEN server' = [server EXCEPT !.submitted = n,
                                         !.response = reply("bad-request")]
           ELSE server' = [server EXCEPT
                    !.sessions[d].state = sess.state \cup {n},
                    !.streams = Broadcast(server.streams, sess.subs, delta, c),
                    !.submitted = n,
                    !.response = reply("ok")]
    /\ lastOp' = "ingest"
    /\ sent' = {}
    /\ UNCHANGED <<pageVars, collVars, editorVars, typed, ui, appVars>>

\* --------------------------------------------- duplicate-login detector
NotifStep(n, op) ==
    /\ notif' = n
    /\ lastOp' = op
    /\ UNCHANGED <<syncVars, crypto, http>>

InitDuplicateLoginDetector ==
    /\ ~notif.left
    /\ Len(notif.es) < MaxNotifs
    /\ NotifStep([connectToNotifications(notif) EXCEPT !.stopped = FALSE],
                 "initDuplicateLoginDetector")

NotifOpen(id) ==
    /\ ~notif.left
    /\ notif.es[id] = CONNECTING
    /\ NotifStep([notif EXCEPT !.es[id] = OPEN], "notif-open")

\* the stream fails: for good (CLOSED) or with the browser retrying (CONNECTING)
NotifError(id, fatal) ==
    /\ ~notif.left
    /\ notif.es[id] # CLOSED
    /\ notif.timers < MaxNotifTimers
    /\ NotifStep(notifOnError([notif EXCEPT !.es[id] =
                                  IF fatal THEN CLOSED ELSE CONNECTING]),
                 "notif-error")

NotifReconnectTimer ==
    /\ ~notif.left
    /\ notif.timers > 0
    /\ Len(notif.es) < MaxNotifs
    /\ NotifStep(notifReconnect([notif EXCEPT !.timers = @ - 1]), "notif-reconnect")

\* a 'duplicate-login' event on stream id: handleDuplicateLogin
DuplicateLogin(id) ==
    /\ ~notif.left
    /\ notif.es[id] = OPEN
    /\ NotifStep([closeNotifications(notif) EXCEPT !.redirect = TRUE, !.stopped = TRUE],
                 "duplicate-login")

\* window.location.href = '/login.html': the page, its streams and timers are gone
NotifRedirect ==
    /\ ~notif.left
    /\ notif.redirect
    /\ NotifStep([notif EXCEPT !.left = TRUE, !.redirect = FALSE, !.timers = 0,
                               !.es = [i \in DOMAIN notif.es |-> CLOSED]],
                 "notif-redirect")

DisconnectNotifications ==
    /\ ~notif.left
    /\ NotifStep([closeNotifications(notif) EXCEPT !.stopped = TRUE],
                 "disconnectNotifications")

\* ------------------------------------------------------- CryptoManager
CryptoStep(c, op) ==
    /\ crypto' = c
    /\ lastOp' = op
    /\ UNCHANGED <<syncVars, notif, http>>

\* initializeKey up to its await; the salt is the one given or a random one
InitializeKeyBegin(password, salt) ==
    /\ Cardinality(crypto.calls) < MaxCalls
    /\ CryptoStep([crypto EXCEPT !.out = Null, !.calls = @ \cup
                      {[password |-> password, salt |-> salt, stale |-> FALSE]}],
                  "initializeKey")

\* the derived key arrives and initializeKey runs to its end
InitializeKeyEnd(call) ==
    /\ call \in crypto.calls
    /\ Cardinality(crypto.timers) < MaxTimers \/ crypto.inactivityTimer # 0
    /\ CryptoStep([initializeKeyResume(crypto, call) EXCEPT !.out = Null],
                  "initializeKey-resolved")

\* the text of the page is entered, once in the life of the page
Compose(plaintext) ==
    /\ crypto.input = Null
    /\ CryptoStep([crypto EXCEPT !.input = [text |-> plaintext], !.out = Null],
                  "compose")

\* encrypt of the text, called while no ciphertext is held; the ciphertext is
\* kept with the plaintext and the key it was made from
Encrypt(iv) ==
    /\ crypto.input # Null
    /\ crypto.stored = Null
    /\ LET r == encrypt(crypto.encryptionKey, iv, crypto.input.text)
       IN CryptoStep([crypto EXCEPT
                         !.out = [op |-> "encrypt", result |-> r],
                         !.stored = IF r.ok
                                    THEN [plaintext |-> crypto.input.text,
                                          key |-> crypto.encryptionKey,
                                          value |-> r.value]
                                    ELSE Null],
                     "encrypt")

\* decrypt of the ciphertext held, as produced or with the marker taken off
Decrypt(withMarker) ==
    /\ crypto.stored # Null
    /\ CryptoStep([crypto EXCEPT
                      !.out = [op |-> "decrypt",
                               withMarker |-> withMarker,
                               plaintext |-> crypto.stored.plaintext,
                               key |-> crypto.stored.key,
                               result |->
                                   decrypt(crypto.encryptionKey,
                                           IF withMarker THEN crypto.stored.value
                                           ELSE SubSeq(crypto.stored.value, Len(Marker) + 1,
                                                       Len(crypto.stored.value)))],
                      !.stored = Null],
                  "decrypt")

\* clearKey called at logout; initializeKey calls in flight become stale
ClearKey ==
    CryptoStep([clearKey(crypto) EXCEPT
                   !.out = Null,
                   !.calls = {[call EXCEPT !.stale = TRUE] : call \in crypto.calls}],
               "clearKey")

\* user activity
ResetInactivityTimer ==
    /\ Cardinality(crypto.timers) < MaxTimers \/ crypto.inactivityTimer # 0
    /\ CryptoStep([resetInactivityTimer(crypto) EXCEPT !.out = Null],
                  "resetInactivityTimer")

\* the inactivity timer id fires: handleInactivityTimeout
InactivityTimeout(id) ==
    /\ id \in crypto.timers
    /\ CryptoStep([clearKey([crypto EXCEPT !.timers = @ \ {id}]) EXCEPT
                      !.logout = TRUE,
                      !.out = Null,
                      !.calls = {[call EXCEPT !.stale = TRUE] : call \in crypto.calls}],
                  "inactivityTimeout")

\* the logout request settles: window.location.href = '/login' replaces the
\* page and its CryptoManager
LogoutSettled ==
    /\ crypto.logout
    /\ CryptoStep(InitCrypto, "logout-settled")

\* ----------------------------------------------------------- web server
\* the request r is answered with o.res and leaves the server as o.h
HttpStep(r, o, op) ==
    /\ http' = [o.h EXCEPT !.req = r, !.res = o.res]
    /\ lastOp' = op
    /\ UNCHANGED <<syncVars, notif, crypto>>

Tick ==
    /\ http.now < MaxNow
    /\ http' = [http EXCEPT !.now = @ + 1, !.req = Null, !.res = Null]
    /\ lastOp' = "tick"
    /\ UNCHANGED <<syncVars, notif, crypto>>

PostLogin(sid, t, userId, passwordOk) ==
    LET r == Request("POST", LoginPath, sid, t)
    IN /\ Len(http.sessions) < MaxSessions
       /\ HttpStep(r, IF CsrfStage(r) # 0 THEN Refused(http, r)
                      ELSE loginHandler(http, userId, passwordOk),
                   "POST /api/auth/login")

PostRegister(sid, t, userId) ==
    LET r == Request("POST", RegisterPath, sid, t)
    IN /\ Len(http.sessions) < MaxSessions
       /\ HttpStep(r, IF CsrfStage(r) # 0 THEN Refused(http, r)
                      ELSE registerHandler(http, userId),
                   "POST /api/auth/register")

PostLogout(sid, t) ==
    LET r == Request("POST", LogoutPath, sid, t)
    IN HttpStep(r, IF CsrfStage(r) # 0 THEN Refused(http, r)
                   ELSE logoutHandler(http, r),
                "POST /api/auth/logout")

GetPages(sid, t) ==
    LET r == Request("GET", PagesPath, sid, t)
    IN HttpStep(r, IF CsrfStage(r) # 0 THEN Refused(http, r)
                   ELSE IF authMiddleware(http, r) = 0 THEN Unauthorized(http, r)
                   ELSE listPagesHandler(http, authMiddleware(http, r)),
                "GET /api/pages")

GetPage(sid, t, id) ==
    LET r == Request("GET", PagePath(id), sid, t)
    IN HttpStep(r, IF CsrfStage(r) # 0 THEN Refused(http, r)
                   ELSE IF authMiddleware(http, r) = 0 THEN Unauthorized(http, r)
                   ELSE getPageHandler(http, authMiddleware(http, r), id),
                "GET /api/pages/:id")

PostPage(sid, t, id, collectionId, parentId, content) ==
    LET r == Request("POST", PagesPath, sid, t)
    IN /\ Cardinality(http.pages) < MaxPages
       /\ \A row \in http.pages : row.id # id
       /\ HttpStep(r, IF CsrfStage(r) # 0 THEN Refused(http, r)
                      ELSE IF authMiddleware(http, r) = 0 THEN Unauthorized(http, r)
                      ELSE createPageHandler(http, authMiddleware(http, r), id,
                                             collectionId, parentId, content),
                   "POST /api/pages")

PutPage(sid, t, id, content) ==
    LET r == Request("PUT", PagePath(id), sid, t)
    IN HttpStep(r, IF CsrfStage(r) # 0 THEN Refused(http, r)
                   ELSE IF authMiddleware(http, r) = 0 THEN Unauthorized(http, r)
                   ELSE updatePageHandler(http, authMiddleware(http, r), id, content),
                "PUT /api/pages/:id")

DeletePage(sid, t, id) ==
    LET r == Request("DELETE", PagePath(id), sid, t)
    IN HttpStep(r, IF CsrfStage(r) # 0 THEN Refused(http, r)
                   ELSE IF authMiddleware(http, r) = 0 THEN Unauthorized(http, r)
                   ELSE deletePageHandler(http, authMiddleware(http, r), id),
                "DELETE /api/pages/:id")

\* -------------------------------------------------------- specifications
RemoteInputs == RemoteUpdates(IF ydoc = Null THEN {} ELSE ydoc.items)

\* the duplicate-login detector of one page
NextNotif ==
    \/ InitDuplicateLoginDetector
    \/ \E id \in DOMAIN notif.es : NotifOpen(id)
    \/ \E id \in DOMAIN notif.es, fatal \in BOOLEAN : NotifError(id, fatal)
    \/ NotifReconnectTimer
    \/ \E id \in DOMAIN notif.es : DuplicateLogin(id)
    \/ NotifRedirect
    \/ DisconnectNotifications

SpecNotif == Init /\ [][NextNotif]_vars

\* encryption and decryption under keys that come and go
NextCipher ==
    \/ \E plaintext \in Plaintexts : Compose(plaintext)
    \/ \E salt \in Salts : crypto.calls = {} /\ InitializeKeyBegin(1, salt)
    \/ \E call \in crypto.calls : InitializeKeyEnd(call)
    \/ \E iv \in Ivs : Encrypt(iv)
    \/ \E withMarker \in BOOLEAN : Decrypt(withMarker)
    \/ ClearKey

SpecCipher == Init /\ [][NextCipher]_vars

\* the life of the key and of the inactivity timer
NextKey ==
    \/ \E password \in Passwords, salt \in Salts : InitializeKeyBegin(password, salt)
    \/ \E call \in crypto.calls : InitializeKeyEnd(call)
    \/ Compose(<<97>>)
    \/ \E iv \in Ivs : Encrypt(iv)
    \/ \E withMarker \in BOOLEAN : Decrypt(withMarker)
    \/ ClearKey
    \/ ResetInactivityTimer
    \/ \E id \in crypto.timers : InactivityTimeout(id)
    \/ LogoutSettled

SpecKey == Init /\ [][NextKey]_vars

\* one CryptoManager
NextCrypto == NextCipher \/ NextKey

\* header and cookie of a request, <<X-CSRF-Token, nteok_csrf>>: both
\* missing, header missing, equal, different, different in length
CsrfPairs ==
    {<<NoToken, NoToken>>, <<NoToken, <<1>>>>, <<<<1>>, <<1>>>>,
     <<<<2>>, <<1>>>>, <<<<1, 1>>, <<1>>>>}
ValidPair == <<<<1>>, <<1>>>>
Cookies == 0..MaxSessions

\* sessions and the CSRF check
NextAuth ==
    \/ Tick
    \/ \E t \in CsrfPairs, ok \in BOOLEAN : PostLogin(0, t, 1, ok)
    \/ \E t \in CsrfPairs : PostRegister(0, t, 3)
    \/ \E sid \in Cookies, t \in CsrfPairs : PostLogout(sid, t)
    \/ \E sid \in Cookies, t \in {ValidPair, <<NoToken, NoToken>>} : GetPages(sid, t)
    \/ \E sid \in Cookies, t \in CsrfPairs : PutPage(sid, t, "pg1", "y")

SpecAuth == Init /\ [][NextAuth]_vars

\* the pages of two users, who log in one after the other; every request
\* carries a good CSRF token
NextPages ==
    \/ \E userId \in {1, 2} :
          Len(http.sessions) = userId - 1 /\ PostLogin(0, ValidPair, userId, TRUE)
    \/ \E sid \in Cookies : GetPages(sid, ValidPair)
    \/ \E sid \in Cookies, id \in PageIds : GetPage(sid, ValidPair, id)
    \/ \E sid \in Cookies, c \in {"c1", "c2", "none"}, parentId \in PageIds \cup {NoParent} :
          PostPage(sid, ValidPair, "pg3", c, parentId, "x")
    \/ \E sid \in Cookies, id \in PageIds, content \in {"y", "none"} :
          PutPage(sid, ValidPair, id, content)
    \/ \E sid \in Cookies, id \in PageIds : DeletePage(sid, ValidPair, id)

SpecPages == Init /\ [][NextPages]_vars

\* the web server
NextHttp == NextAuth \/ NextPages

Next ==
    \/ \E p \in Pages, e \in BOOLEAN : StartPageSync(p, e)
    \/ StopPageSync
    \/ \E id \in DOMAIN sources : EsOpen(id)
    \/ \E id \in DOMAIN sources, snapshot \in Snapshots : EsInit(id, snapshot)
    \/ \E id \in DOMAIN sources, update \in RemoteInputs : EsYjsUpdate(id, update)
    \/ \E id \in DOMAIN sources : EsError(id)
    \/ \E id \in DOMAIN sources : ReconnectTimer(id)
    \/ Focus
    \/ Blur
    \/ \E c \in Contents : LocalEdit(c)
    \/ \E k \in DOMAIN bindings : DebounceFire(k)
    \/ \E c \in Collections : StartCollectionSync(c)
    \/ StopCollectionSync
    \/ \E id \in DOMAIN collSources : CollEsOpen(id)
    \/ \E id \in DOMAIN collSources : CollEsError(id)
    \/ HandleOnline
    \/ HandleOffline
    \/ \E hidden \in BOOLEAN : HandleVisibilityChange(hidden)
    \/ \E id \in DOMAIN collSources, p \in Pages \cup UnlistedPages, f \in Fields,
          el \in BOOLEAN : \E v \in MetaValues(f) : MetadataChange(id, p, f, v, el)
    \/ \E c \in Conns, d \in Docs : Subscribe(c, d)
    \/ \E c \in Conns : Unsubscribe(c)
    \/ \E d \in Docs : GraceExpire(d)
    \/ \E c \in Conns, d \in Docs, p \in Payloads, a \in BOOLEAN : Ingest(c, d, p, a)
    \/ \E r \in sent : SendFailed(r)
    \/ \E id \in DOMAIN sources : EsInitMalformed(id)
    \/ \E id \in DOMAIN sources : EsYjsUpdateMalformed(id)
    \/ NextNotif
    \/ NextCrypto
    \/ NextHttp

Spec == Init /\ [][Next]_vars

\* transport lifecycle of the page stream and the collection stream
NextSync ==
    \/ \E p \in Pages, e \in BOOLEAN : StartPageSync(p, e)
    \/ StopPageSync
    \/ \E id \in DOMAIN sources : EsOpen(id)
    \/ \E id \in DOMAIN sources : EsError(id)
    \/ \E id \in DOMAIN sources : ReconnectTimer(id)
    \/ \E c \in Collections : StartCollectionSync(c)
    \/ StopCollectionSync
    \/ \E id \in DOMAIN collSources : CollEsOpen(id)
    \/ \E id \in DOMAIN collSources : CollEsError(id)
    \/ HandleOnline
    \/ HandleOffline
    \/ \E hidden \in BOOLEAN : HandleVisibilityChange(hidden)

SpecSync == Init /\ [][NextSync]_vars

\* one page synced against the editor: snapshot, remote deltas, local edits
NextEdit ==
    \/ Len(sources) < MaxEditSyncs /\ StartPageSync("p1", FALSE)
    \/ StopPageSync
    \/ \E id \in DOMAIN sources : EsOpen(id)
    \/ \E id \in DOMAIN sources, snapshot \in Snapshots : EsInit(id, snapshot)
    \/ \E id \in DOMAIN sources, update \in RemoteInputs : EsYjsUpdate(id, update)
    \/ Focus
    \/ Blur
    \/ \E c \in Contents : LocalEdit(c)
    \/ \E k \in DOMAIN bindings : DebounceFire(k)

SpecEdit == Init /\ [][NextEdit]_vars

\* transport lifecycle of the page stream alone
NextPage ==
    \/ \E p \in Pages, e \in BOOLEAN : StartPageSync(p, e)
    \/ StopPageSync
    \/ \E id \in DOMAIN sources : EsOpen(id)
    \/ \E id \in DOMAIN sources : EsError(id)
    \/ \E id \in DOMAIN sources : ReconnectTimer(id)
    \/ HandleOnline
    \/ HandleOffline
    \/ \E hidden \in BOOLEAN : HandleVisibilityChange(hidden)

\* timers fire: a reconnect timer that stays able to run eventually runs
FairPage ==
    /\ Init /\ [][NextPage]_vars
    /\ \A id \in 1..(MaxSyncs + 1) :
          WF_vars(id \in DOMAIN sources /\ ReconnectTimer(id))

\* timers fire, on the page stream and the collection stream together
FairSync ==
    /\ Init /\ [][NextSync]_vars
    /\ \A id \in 1..(MaxSyncs + 1) :
          WF_vars(id \in DOMAIN sources /\ ReconnectTimer(id))

\* metadata events of one collection while pages are opened and closed
NextMeta ==
    \/ \E p \in Pages : Len(sources) < MaxMetaSyncs /\ StartPageSync(p, FALSE)
    \/ StopPageSync
    \/ Len(collSources) < 1 /\ StartCollectionSync("c1")
    \/ \E id \in DOMAIN collSources : CollEsOpen(id)
    \/ \E id \in DOMAIN collSources, p \in Pages \cup UnlistedPages, f \in Fields,
          el \in BOOLEAN : \E v \in MetaValues(f) : MetadataChange(id, p, f, v, el)

SpecMeta == Init /\ [][NextMeta]_vars

\* the sync server: sessions, subscribers and submitted deltas
NextServer ==
    \/ \E c \in Conns, d \in Docs : Subscribe(c, d)
    \/ \E c \in Conns : Unsubscribe(c)
    \/ \E d \in Docs : GraceExpire(d)
    \/ \E c \in Conns, d \in Docs, p \in Payloads, a \in BOOLEAN : Ingest(c, d, p, a)

SpecServer == Init /\ [][NextServer]_vars

\* one page sync with failing submissions and unparsable stream events
NextFault ==
    \/ Len(sources) < MaxEditSyncs /\ StartPageSync("p1", FALSE)
    \/ \E id \in DOMAIN sources : EsOpen(id)
    \/ \E id \in DOMAIN sources, snapshot \in Snapshots : EsInit(id, snapshot)
    \/ \E id \in DOMAIN sources : EsInitMalformed(id)
    \/ \E id \in DOMAIN sources, update \in RemoteInputs : EsYjsUpdate(id, update)
    \/ \E id \in DOMAIN sources : EsYjsUpdateMalformed(id)
    \/ Focus
    \/ \E c \in Contents : LocalEdit(c)
    \/ \E k \in DOMAIN bindings : DebounceFire(k)
    \/ \E r \in sent : SendFailed(r)

SpecFault == Init /\ [][NextFault]_vars

\* ----------------------------------------------------------------- claims
OpenSources == {id \in DOMAIN sources : sources[id].readyState # CLOSED}
OpenCollSources == {id \in DOMAIN collSources : collSources[id].readyState # CLOSED}

\* C1: startPageSync(pageId, isEncrypted = true) creates no EventSource and no
\* Y.Doc and leaves currentPageSync, ydoc, yMetadata and state.currentPageId
\* exactly as they were.
C1_EncryptedStartTouchesNothing ==
    [][\A p \in Pages :
          StartPageSync(p, TRUE) =>
             UNCHANGED <<currentPageSync, ydoc, yXmlFragment, yMetadata,
                         currentPageId, sources>>]_vars

\* an encrypted start was made while a sync was open (a plain start would have
\* left a connecting stream)
C1_Witness ==
    /\ lastOp = "startPageSync"
    /\ currentPageSync # Null
    /\ sources[currentPageSync.eventSource].readyState = OPEN

\* C5: at most one page-stream EventSource and at most one collection-stream
\* EventSource are open in every reachable state, and the open one is the one
\* the module variable refers to.
C5_AtMostOneOpenStream ==
    /\ Cardinality(OpenSources) <= 1
    /\ Cardinality(OpenCollSources) <= 1
    /\ \A id \in OpenSources :
          currentPageSync # Null /\ currentPageSync.eventSource = id
    /\ \A id \in OpenCollSources :
          currentCollectionSync # Null /\ currentCollectionSync.eventSource = id

\* both streams are open after each was restarted at least once
C5_Witness ==
    /\ Len(sources) >= 2
    /\ Len(collSources) >= 2
    /\ Cardinality(OpenSources) = 1
    /\ Cardinality(OpenCollSources) = 1

\* C6: whenever startPageSync is invoked for a page q, whatever its encrypted
\* flag, while a sync for another page p is active, the stream of p is closed
\* and its Y.Doc destroyed on return.
C6_StartStopsPrevious ==
    [][\A q \in Pages, e \in BOOLEAN :
          (/\ StartPageSync(q, e)
           /\ currentPageSync # Null
           /\ currentPageSync.pageId # q
           /\ sources[currentPageSync.eventSource].readyState # CLOSED)
          => /\ sources'[currentPageSync.eventSource].readyState = CLOSED
             /\ ydoc' # ydoc]_vars

\* C9: after a transport error on the page stream, a page that stays current
\* is resubscribed: the errored sync of the current page leads to an open
\* stream for that page, unless the page stops being current.
C9_ErrorLeadsToResubscribe ==
    \A p \in Pages :
       (/\ currentPageId = p
        /\ currentPageSync # Null
        /\ sources[currentPageSync.eventSource].readyState = CLOSED
        /\ Len(sources) < MaxSyncs)
       ~> (\/ currentPageId # p
           \/ /\ currentPageSync # Null
              /\ currentPageSync.pageId = p
              /\ sources[currentPageSync.eventSource].readyState # CLOSED)

\* the reconnect timer of the first stream has opened the second stream, for
\* the same page
C9_Witness ==
    /\ lastOp = "reconnectTimer"
    /\ Len(sources) = 2
    /\ sources[1].pageId = sources[2].pageId
    /\ currentPageSync # Null
    /\ currentPageSync.eventSource = 2
    /\ sources[2].readyState = CONNECTING

\* C10: a stream for page p is opened only by a call of startPageSync for p
\* or while p is the current page: a reconnect timer that fires after
\* stopPageSync, or after another page became current, opens nothing.
C10_NoReconnectAfterStop ==
    [][/\ Len(sources') > Len(sources) =>
            \/ lastOp' = "startPageSync"
            \/ currentPageId = sources'[Len(sources')].pageId
       /\ \A id \in DOMAIN sources :
            (ReconnectTimer(id) /\ currentPageId # sources[id].pageId)
               => /\ Len(sources') = Len(sources)
                  /\ OpenSources' = OpenSources]_vars

\* a reconnect timer fired after stopPageSync and nothing is open
C10_Witness ==
    /\ lastOp = "reconnectTimer"
    /\ currentPageSync = Null
    /\ currentPageId = NoPage
    /\ OpenSources = {}

RemoteItems(items) == {i \in items : i.id[1] # LocalClient}

\* C2: a remote delta that arrives while the editor has focus leaves the
\* rendered content unchanged, and once the blur has been handled the editor
\* content equals the content of the merged replicated state (stated for a
\* sync that is Live and an editor bound once, with a render pending).
C2_BlurShowsMergedState ==
    [][/\ \A id \in DOMAIN sources, u \in RemoteInputs :
            (EsYjsUpdate(id, u) /\ editorFocus) => editorContent' = editorContent
       /\ (/\ Blur
           /\ Live
           /\ Len(bindings) = 1
           /\ bindings[1].pending # NoPending)
          => editorContent' = MapGet(ydoc'.items)]_vars

\* C3: every yjs-update event received on the page stream is merged into the
\* local Y.Doc, with or without focus and with or without a pending render.
C3_RemoteUpdateAlwaysMerged ==
    [][\A id \in DOMAIN sources, u \in RemoteInputs :
          EsYjsUpdate(id, u) => ydoc' # Null /\ u \subseteq ydoc'.items]_vars

\* a delta was merged while the editor had focus and an earlier render was
\* already pending: two remote items are in the document, the pending render
\* is the merged content, and the editor still shows something else
C3_Witness ==
    /\ lastOp = "yjs-update"
    /\ editorFocus
    /\ ydoc # Null
    /\ Cardinality({i \in ydoc.items : i.id[1] \in RemoteClients}) = 2
    /\ bindings # <<>>
    /\ bindings[Len(bindings)].pending = MapGet(ydoc.items)
    /\ editorContent # MapGet(ydoc.items)

\* C4: after the init event has been processed the content of the local
\* replicated state is the content of the server snapshot.
C4_InitSeedsFromSnapshotOnly ==
    (lastOp = "init" /\ ydoc # Null)
       => MapGet(ydoc.items) = MapGet(RemoteItems(ydoc.items))

C8_LocalEditSubmitted ==
    (Live /\ typed # Undefined) => \E k \in DOMAIN bindings : bindings[k].timer > 0

\* the pending slots that hold a deferred remote render
PendingSlots == {k \in DOMAIN bindings : bindings[k].pending # NoPending}

\* C11: a blur with a pending remote render shows a pending content (that of
\* the newest binding that holds one), empties every pending slot, arms no
\* debounce timer and writes nothing to the replicated state; a blur with no
\* pending render leaves the editor content unchanged; a deferral stores the
\* content of the update it defers in the slot of the current binding,
\* replacing what the slot held.
C11_BlurAppliesPending ==
    /\ [][Blur =>
            /\ PendingSlots # {} =>
                  /\ editorContent' \in {bindings[k].pending : k \in PendingSlots}
                  /\ \A k \in PendingSlots :
                        (\A j \in PendingSlots : j <= k)
                            => editorContent' = bindings[k].pending
            /\ PendingSlots = {} => editorContent' = editorContent
            /\ DOMAIN bindings' = DOMAIN bindings
            /\ \A k \in DOMAIN bindings :
                  /\ bindings'[k].pending = NoPending
                  /\ bindings'[k].timer = bindings[k].timer
            /\ ydoc' = ydoc
            /\ sent' = {}]_vars
    /\ [][\A id \in DOMAIN sources, update \in RemoteInputs :
            (EsYjsUpdate(id, update) /\ bindings' # bindings) =>
                /\ editorFocus
                /\ editorContent' = editorContent
                /\ bindings' = [bindings EXCEPT ![Len(bindings)].pending =
                                                    MapGet(ydoc'.items)]]_vars

\* a blur has just shown content "b" that only a remote item carries: no
\* local edit is waiting and no local item of the document has that content
C11_Witness ==
    /\ lastOp = "blur"
    /\ Live
    /\ editorContent = "b"
    /\ MapGet(ydoc.items) = "b"
    /\ typed = Undefined
    /\ \A k \in DOMAIN bindings : bindings[k].timer = 0
    /\ \A i \in ydoc.items : i.val = "b" => i.id[1] # LocalClient

\* C12: local edits are debounced.  An editor update event writes nothing to
\* the replicated state and submits nothing; however many events a burst
\* has, a binding has at most one debounce callback pending afterwards; when
\* the callback runs it makes at most one write, of the content the editor
\* has then, submits that one delta, and writes and submits nothing when
\* that content equals the content of the replicated state; after it no
\* callback of that binding is left.
C12_EditsDebounced ==
    /\ [](\A k \in DOMAIN bindings : bindings[k].timer <= 1)
    /\ [][\A c \in Contents : LocalEdit(c) =>
            /\ ydoc' = ydoc
            /\ sent' = {}
            /\ \A k \in DOMAIN bindings : bindings'[k].timer = 1]_vars
    /\ [][\A k \in DOMAIN bindings : DebounceFire(k) =>
            /\ bindings'[k].timer = 0
            /\ (ydoc # Null /\ yMetadata # Null) =>
                  IF editorContent = MapGet(ydoc.items)
                  THEN ydoc' = ydoc /\ sent' = {}
                  ELSE /\ Cardinality(ydoc'.items \ ydoc.items) = 1
                       /\ ydoc.items \subseteq ydoc'.items
                       /\ MapGet(ydoc'.items) = editorContent
                       /\ sent' = {[pageId |-> ydoc.pageId,
                                    update |-> ydoc'.items \ ydoc.items]}]_vars

\* the debounce callback of the only binding has just written the edited
\* content "b" to the replicated state and submitted it
C12_Witness ==
    /\ lastOp = "debounce"
    /\ Live
    /\ Len(bindings) = 1
    /\ bindings[1].timer = 0
    /\ editorContent = "b"
    /\ MapGet(ydoc.items) = "b"
    /\ sent # {}

\* C13: after the offline event has been handled no page stream and no
\* collection stream is open.
C13_OfflineClosesTransports ==
    lastOp = "offline" =>
        /\ \A id \in DOMAIN sources : sources[id].readyState # OPEN
        /\ \A id \in DOMAIN collSources : collSources[id].readyState # OPEN

\* C14: the online handler starts a new stream for a current page sync and
\* for a current collection sync whose stream is not open.
C14_OnlineRestartsClosed ==
    [][HandleOnline =>
        /\ (/\ currentPageSync # Null
            /\ sources[currentPageSync.eventSource].readyState # OPEN
            /\ Len(sources) < MaxSyncs)
              => /\ Len(sources') = Len(sources) + 1
                 /\ sources'[Len(sources')].pageId = currentPageSync.pageId
        /\ (/\ currentCollectionSync # Null
            /\ collSources[currentCollectionSync.eventSource].readyState # OPEN
            /\ Len(collSources) < MaxCollSyncs)
              => /\ Len(collSources') = Len(collSources) + 1
                 /\ collSources'[Len(collSources')].collectionId =
                        currentCollectionSync.collectionId]_vars

\* C15: when the document becomes visible, a current page sync or collection
\* sync whose stream is not OPEN is replaced by a new sync of the same page or
\* collection (the old stream closed, a new one connecting), and a sync whose
\* stream is OPEN, or no sync at all, is left as it is.
C15_VisibleRestartsNotOpen ==
    [][HandleVisibilityChange(FALSE) =>
        /\ IF /\ currentPageSync # Null
              /\ sources[currentPageSync.eventSource].readyState # OPEN
           THEN LET old == currentPageSync.eventSource
                    new == Len(sources) + 1
                IN  /\ DOMAIN sources' = 1..new
                    /\ sources'[old].readyState = CLOSED
                    /\ sources'[new].readyState = CONNECTING
                    /\ sources'[new].pageId = currentPageSync.pageId
                    /\ currentPageSync' = [eventSource |-> new,
                                           pageId |-> currentPageSync.pageId]
                    /\ currentPageId' = currentPageSync.pageId
           ELSE UNCHANGED pageVars
        /\ IF /\ currentCollectionSync # Null
              /\ collSources[currentCollectionSync.eventSource].readyState # OPEN
           THEN LET old == currentCollectionSync.eventSource
                    new == Len(collSources) + 1
                IN  /\ DOMAIN collSources' = 1..new
                    /\ collSources'[old].readyState = CLOSED
                    /\ collSources'[new].readyState = CONNECTING
                    /\ currentCollectionSync' =
                           [eventSource |-> new,
                            collectionId |-> currentCollectionSync.collectionId]
                    /\ currentCollectionId' = currentCollectionSync.collectionId
           ELSE UNCHANGED collVars]_vars

\* the page became visible while the page stream had failed and the
\* collection stream was open: the page sync was restarted on a second
\* stream, the collection sync still runs on its first, open stream
C15_Witness ==
    /\ lastOp = "visible"
    /\ currentPageSync # Null
    /\ currentPageSync.eventSource = 2
    /\ sources[1].readyState = CLOSED
    /\ sources[1].timer
    /\ sources[2].readyState = CONNECTING
    /\ sources[2].pageId = sources[1].pageId
    /\ currentCollectionSync # Null
    /\ Len(collSources) = 1
    /\ collSources[1].readyState = OPEN

\* C16: a collection sync whose stream was closed by a transport error gets
\* an open or connecting stream again (or is stopped) without any further
\* signal, as long as another stream may be created.
C16_CollErrorLeadsToReconnect ==
    (/\ currentCollectionSync # Null
     /\ collSources[currentCollectionSync.eventSource].readyState = CLOSED
     /\ Len(collSources) < MaxCollSyncs)
        ~> (\/ currentCollectionSync = Null
            \/ collSources[currentCollectionSync.eventSource].readyState # CLOSED)

\* C17: handling a metadata-change event for page P changes neither the
\* editor, nor the replicated document, nor any page or collection stream or
\* sync, and submits nothing; of the sidebar only the entry of P may change;
\* the cover display changes only when P is the current page id and the
\* field is coverImage or coverPosition.
C17_MetadataChangeFrame ==
    [][lastOp' = "metadata-change" =>
          /\ UNCHANGED <<editorVars, pageVars, collVars>>
          /\ sent' = {}
          /\ ui' # ui =>
                \A id \in DOMAIN collSources, p \in Pages \cup UnlistedPages,
                   f \in Fields, el \in BOOLEAN : \A v \in MetaValues(f) :
                   MetadataChange(id, p, f, v, el) =>
                       /\ DOMAIN ui'.sidebar = DOMAIN ui.sidebar
                       /\ \A q \in DOMAIN ui.sidebar :
                             q # p => ui'.sidebar[q] = ui.sidebar[q]
                       /\ ui'.cover # ui.cover =>
                             /\ p = currentPageId
                             /\ f \in {"coverImage", "coverPosition"}]_vars

\* while page p2 is synced with a document and the cover is as it was, a
\* title event for p1 has renamed the sidebar entry of p1 and only that
C17_Witness ==
    /\ lastOp = "metadata-change"
    /\ currentPageId = "p2"
    /\ ydoc # Null
    /\ ui.sidebar["p1"].title = "U"
    /\ ui.sidebar["p2"] = InitUi.sidebar["p2"]
    /\ ui.cover = InitUi.cover

\* C19: a delta accepted from connection O for document D is appended, once,
\* to the stream of every other connection subscribed to D at that time and
\* to no other stream; no stream ever holds the same delta twice, and no
\* stream holds a delta of its own connection.
C19_BroadcastExcludesOrigin ==
    /\ [](\A c \in Conns : \A i, j \in DOMAIN server.streams[c] :
            /\ server.streams[c][i].origin # c
            /\ server.streams[c][i].delta = server.streams[c][j].delta => i = j)
    /\ [][\A o \in Conns, d \in Docs :
            Ingest(o, d, "delta", TRUE) =>
                LET delta == [type |-> "delta", delta |-> server.submitted + 1,
                              origin |-> o]
                IN  \A c \in Conns :
                       server'.streams[c] =
                           IF c \in server.sessions[d].subs /\ c # o
                           THEN Append(server.streams[c], delta)
                           ELSE server.streams[c]]_vars

\* A and B are subscribed to d1 and each has submitted one delta: the stream
\* of each holds the delta of the other and nothing else, and the document
\* has merged both
C19_Witness ==
    /\ lastOp = "ingest"
    /\ server.sessions["d1"] # Null
    /\ {"A", "B"} \subseteq server.sessions["d1"].subs
    /\ server.sessions["d1"].state = SeedState \cup {1, 2}
    /\ server.streams["A"] = <<[type |-> "delta", delta |-> 2, origin |-> "B"]>>
    /\ server.streams["B"] = <<[type |-> "delta", delta |-> 1, origin |-> "A"]>>

\* C20: a malformed payload changes no document session (state and
\* subscribers) and no stream, and the submitter gets a client error:
\* bad-request, or forbidden when the submitter is not authorized.
C20_MalformedRejected ==
    [][\A o \in Conns, d \in Docs, a \in BOOLEAN :
          Ingest(o, d, "malformed", a) =>
              /\ server'.sessions = server.sessions
              /\ server'.streams = server.streams
              /\ server'.response =
                     [to |-> o, doc |-> d,
                      status |-> IF a THEN "bad-request" ELSE "forbidden"]]_vars

\* A, subscribed to d1 together with B, has just had a malformed payload
\* rejected: the document still holds the seed alone and B's stream is empty
C20_Witness ==
    /\ lastOp = "ingest"
    /\ server.response = [to |-> "A", doc |-> "d1", status |-> "bad-request"]
    /\ server.sessions["d1"] # Null
    /\ server.sessions["d1"].subs = {"A", "B"}
    /\ server.sessions["d1"].state = SeedState
    /\ server.streams["B"] = <<>>
    /\ server.submitted = 1

\* C21: a document session that exists has a subscriber or is waiting for its
\* teardown timer, and the timer is armed exactly while the subscriber set is
\* empty; a session comes into being only by a subscribe, which makes the
\* subscriber its only one, and ceases to be only by the timer running out on
\* an empty subscriber set.
C21_SessionLifetime ==
    /\ [](\A d \in Docs : server.sessions[d] # Null =>
             (server.sessions[d].grace <=> server.sessions[d].subs = {}))
    /\ [][\A d \in Docs :
            /\ (server.sessions[d] = Null /\ server'.sessions[d] # Null) =>
                  /\ lastOp' = "subscribe"
                  /\ server'.sessions[d].subs = {server'.response.to}
            /\ (server.sessions[d] # Null /\ server'.sessions[d] = Null) =>
                  /\ lastOp' = "graceExpire"
                  /\ server.sessions[d].subs = {}]_vars

\* the session of d1 has been torn down after its last subscriber left,
\* while the session of d2 lives on with a subscriber
C21_Witness ==
    /\ lastOp = "graceExpire"
    /\ server.sessions["d1"] = Null
    /\ server.sessions["d2"] # Null
    /\ server.sessions["d2"].subs # {}
    /\ server.subscribes = 2

\* C22: a departure leaves the state of the session as it is; a subscribe to
\* a session that still exists (its teardown pending) cancels the teardown
\* and returns that state, which the session keeps; a subscribe to a
\* document whose session was torn down returns the state seeded from the
\* persisted record.
C22_ResubscribeWithinGrace ==
    /\ [][\A c \in Conns, d \in Docs : Subscribe(c, d) =>
            /\ server'.response.snapshot =
                   IF server.sessions[d] = Null THEN SeedState
                   ELSE server.sessions[d].state
            /\ server'.sessions[d].state = server'.response.snapshot
            /\ ~server'.sessions[d].grace]_vars
    /\ [][\A c \in Conns : Unsubscribe(c) =>
            \A d \in Docs : server.sessions[d] # Null =>
                /\ server'.sessions[d] # Null
                /\ server'.sessions[d].state = server.sessions[d].state]_vars

\* every subscriber of d1 had left after a delta was merged; the connection
\* that has just subscribed, now the only subscriber, got the state with the
\* delta
C22_Witness ==
    /\ lastOp = "subscribe"
    /\ server.response.doc = "d1"
    /\ server.response.snapshot = SeedState \cup {1}
    /\ server.sessions["d1"].subs = {server.response.to}
    /\ server.sessions["d1"].state = SeedState \cup {1}

\* C23: a blur that comes after stopPageSync, or right after startPageSync,
\* when every pending render was stored during an earlier sync, leaves the
\* editor content as it is.
C23_PendingDiesWithSync ==
    [][(Blur /\ (ydoc = Null \/ lastOp = "startPageSync"))
          => editorContent' = editorContent]_vars

\* C24: a debounce callback that runs right after stopPageSync or right
\* after startPageSync, its timer armed by an edit made before, changes no
\* Y.Doc and submits nothing.
C24_StaleTimerWritesNothing ==
    [][\A k \in DOMAIN bindings :
          (DebounceFire(k) /\ lastOp \in {"stopPageSync", "startPageSync"})
              => (ydoc' = ydoc /\ sent' = {})]_vars

\* C25: handling a yjs-update event submits nothing and arms no debounce
\* timer, whether the content is rendered, deferred or left alone.
C25_RemoteUpdateNotEchoed ==
    [][lastOp' = "yjs-update" =>
          /\ sent' = {}
          /\ DOMAIN bindings' = DOMAIN bindings
          /\ \A k \in DOMAIN bindings : bindings'[k].timer = bindings[k].timer]_vars

\* a yjs-update has just merged a remote item with content "b" and rendered
\* it in the unfocused editor
C25_Witness ==
    /\ lastOp = "yjs-update"
    /\ Live
    /\ ~editorFocus
    /\ editorContent = "b"
    /\ MapGet(ydoc.items) = "b"
    /\ \E i \in ydoc.items : i.id = WinnerId(ydoc.items) /\ i.id[1] \in RemoteClients

\* C26: handling the init event submits nothing when no local edit is
\* waiting to be submitted.
C26_InitSubmitsNothing ==
    (/\ lastOp = "init"
     /\ typed = Undefined
     /\ \A k \in DOMAIN bindings : bindings[k].timer = 0)
        => sent = {}

\* C27: a reconnect timer that fires while the current page stream is a
\* later one than the stream whose error armed it leaves that later stream
\* as it is.
C27_ReconnectSparesNewerStream ==
    [][\A id \in DOMAIN sources :
          (/\ ReconnectTimer(id)
           /\ currentPageSync # Null
           /\ currentPageSync.eventSource > id
           /\ Len(sources) < MaxSyncs)
              => /\ currentPageSync' = currentPageSync
                 /\ sources'[currentPageSync.eventSource] =
                        sources[currentPageSync.eventSource]]_vars

\* C28: at most one binding (update handler, blur handler and pending slot)
\* is attached to the editor.
C28_EditorBoundOnce == Len(bindings) <= 1

\* C29: a failed update submission is logged only: the step that handles the
\* failure closes no transport, arms no reconnect timer, and leaves the page
\* sync, its replicated document, the collection sync, the editor content and
\* the editor's bindings exactly as they were.
C29_FailedSubmissionLoggedOnly ==
    [][lastOp' = "sendFailed" => UNCHANGED <<pageVars, collVars, editorVars>>]_vars

\* a submission failed while the page sync was running on an open stream
C29_Witness ==
    /\ lastOp = "sendFailed"
    /\ currentPageSync # Null
    /\ sources[currentPageSync.eventSource].readyState = OPEN
    /\ ydoc # Null /\ ydoc.items # {}

\* C30: an unparsable event on the page stream is a no-op: once the current
\* stream is open and has delivered its init event, an editor that exists is
\* bound to the document, so that local edits are submitted.
C30_MalformedEventIsNoOp ==
    (/\ currentPageSync # Null
     /\ sources[currentPageSync.eventSource].readyState = OPEN
     /\ sources[currentPageSync.eventSource].inited
     /\ editorPresent)
        => bindings # <<>>

\* C31: once disconnectNotifications has run, or a duplicate-login event has
\* been handled, no notification connection is created until
\* initDuplicateLoginDetector is called again.
C31_NoConnectionAfterDisconnect ==
    [][(notif.stopped /\ notif'.stopped) => Len(notif'.es) = Len(notif.es)]_vars

\* C32: at most one notification EventSource is not closed, and the module
\* variable refers to it.
C32_OneNotificationStream ==
    \A i \in DOMAIN notif.es : notif.es[i] # CLOSED => notif.current = i

\* C33: with an initialized key, encrypt returns a string that starts with
\* 'ENC1:' and that isEncrypted accepts, and decrypt under the same key, of
\* that string with or without the marker, returns the plaintext.
C33_EncryptionRoundTrips ==
    /\ (lastOp = "encrypt" /\ crypto.out.result.ok)
          => /\ startsWith(crypto.out.result.value, Marker)
             /\ CryptoIsEncrypted(crypto.out.result.value)
    /\ (lastOp = "decrypt" /\ crypto.encryptionKey = crypto.out.key)
          => /\ crypto.out.result.ok
             /\ crypto.out.result.value = crypto.out.plaintext

\* C34: a key, once cleared by clearKey, is not stored again by an
\* initializeKey call that began before the clearKey.
C34_ClearedKeyStaysCleared ==
    crypto.encryptionKey # NoKey => ~crypto.fromStale

\* C35: while the key is initialized exactly one inactivity timer is armed and
\* it is the one the manager holds; never more than one is armed; clearKey
\* leaves none; and the step of the timeout leaves key, salt and password
\* cleared with the logout request issued.
C35_OneInactivityTimer ==
    /\ Cardinality(crypto.timers) <= 1
    /\ crypto.encryptionKey # NoKey
          => crypto.timers = {crypto.inactivityTimer} /\ crypto.inactivityTimer # 0
    /\ lastOp = "clearKey" => crypto.timers = {}
    /\ lastOp = "inactivityTimeout"
          => /\ crypto.encryptionKey = NoKey
             /\ crypto.salt = NoKey
             /\ crypto.password = NoKey
             /\ crypto.timers = {}
             /\ crypto.logout

\* the key is initialized after an earlier timer was replaced by a reset
C35_Witness ==
    /\ lastOp = "resetInactivityTimer"
    /\ crypto.encryptionKey # NoKey
    /\ crypto.timers # {}

PageRequests == {"GET /api/pages/:id", "PUT /api/pages/:id", "DELETE /api/pages/:id"}

\* the rows of the requested page that belong to somebody else than the user
\* the session names
ForeignRows == {row \in http.pages : row.id = http'.req.path[3]
                                     /\ row.userId # http'.res.userId}

\* what holds of every request on pages that got past authMiddleware: rows of
\* other users stay as they are, a list holds only the user's rows, a page is
\* created only in the user's collection and under the user's page of that
\* collection
OthersUntouched ==
    /\ \A row \in http.pages : row.userId # http'.res.userId => row \in http'.pages
    /\ lastOp' = "GET /api/pages"
          => \A row \in http'.res.rows : row.userId = http'.res.userId
    /\ (lastOp' = "POST /api/pages" /\ http'.res.status = 201)
          => \A row \in http'.res.rows :
                /\ row.userId = http'.res.userId
                /\ CollectionOwner[row.collectionId] = row.userId
                /\ row.parentId # NoParent
                      => \E parent \in http.pages :
                            /\ parent.id = row.parentId
                            /\ parent.userId = row.userId
                            /\ parent.collectionId = row.collectionId

\* C36 as stated: GET, PUT and DELETE of a page of another user answer 404
C36_ForeignPageIs404 ==
    [][(lastOp' \in PageRequests /\ http'.res.userId # 0 /\ ForeignRows # {})
          => /\ http'.res.status = 404
             /\ OthersUntouched]_vars

\* C36: pages are isolated per user: GET and DELETE of a page of another user
\* answer 404, PUT answers 404, or 400 when its body has nothing to update;
\* none of them returns or changes a row of another user; GET /api/pages
\* returns the user's rows only; POST /api/pages succeeds only into the user's
\* collection, under a parent, if given, that is the user's and in that collection.
C36_PagesIsolated ==
    [][(lastOp' \in PageRequests \cup {"GET /api/pages", "POST /api/pages"}
           /\ http'.res.userId # 0)
          => /\ OthersUntouched
             /\ (lastOp' \in PageRequests /\ ForeignRows # {})
                   => /\ \/ http'.res.status = 404
                         \/ lastOp' = "PUT /api/pages/:id" /\ http'.res.status = 400
                      /\ http'.res.rows = {}]_vars

\* user 1 asked to change the page of user 2 and was answered 404
C36_Witness ==
    /\ lastOp = "PUT /api/pages/:id"
    /\ http.res.status = 404
    /\ http.res.userId = 1
    /\ \E row \in http.pages : row.id = http.req.path[3] /\ row.userId = 2

AuthenticatedRequests == {"GET /api/pages", "PUT /api/pages/:id"}

\* the cookie of the request answered last names an entry of the session map
\* that is present and expires strictly in the future
SessionValid ==
    /\ http.req.sid \in DOMAIN http.sessions
    /\ http.sessions[http.req.sid].present
    /\ http.sessions[http.req.sid].expiresAt > http.now

\* C37: a request runs a handler behind authMiddleware only with a cookie that
\* names a present session expiring strictly in the future; otherwise
\* authMiddleware answers 401, and a session presented expired is gone from
\* the map; after a logout that ran, the session of its cookie is gone; and a
\* session once gone never comes back, so its cookie is refused from then on.
C37_OnlyLiveSessionsPass ==
    /\ [](lastOp \in AuthenticatedRequests
             => /\ http.res.handler # "none" => SessionValid
                /\ (http.res.status \notin {403, 500} /\ ~SessionValid)
                      => http.res.status = 401 /\ http.res.handler = "none"
                /\ (http.res.status = 401 /\ http.req.sid \in DOMAIN http.sessions)
                      => ~http.sessions[http.req.sid].present)
    /\ []((lastOp = "POST /api/auth/logout" /\ http.res.handler = "logout"
              /\ http.req.sid \in DOMAIN http.sessions)
             => ~http.sessions[http.req.sid].present)
    /\ [][\A sid \in DOMAIN http.sessions :
             ~http.sessions[sid].present => ~http'.sessions[sid].present]_vars

\* a cookie whose session was logged out while it was still good is answered 401
C37_Witness ==
    /\ lastOp = "GET /api/pages"
    /\ http.res.status = 401
    /\ http.req.sid \in DOMAIN http.sessions
    /\ http.sessions[http.req.sid].expiresAt > http.now

\* C38: a request under /api with a method other than GET, HEAD, OPTIONS,
\* not to login or register, whose X-CSRF-Token header is missing or differs
\* from the nteok_csrf cookie, is answered 403 and runs no handler.
C38_BadCsrfTokenIs403 ==
    (/\ lastOp # "init" /\ lastOp # "tick" /\ http.req # Null
     /\ http.req.method \notin SafeMethods
     /\ http.req.path[1] = "api"
     /\ http.req.path \notin {LoginPath, RegisterPath}
     /\ (http.req.header = NoToken \/ http.req.header # http.req.csrfCookie))
        => http.res.status = 403 /\ http.res.handler = "none"

\* C39: a POST to login or register without a CSRF token reaches its handler.
C39_LoginExemptFromCsrf ==
    (/\ lastOp \in {"POST /api/auth/login", "POST /api/auth/register"}
     /\ http.req.header = NoToken)
        => http.res.handler \in {"login", "register"}
====
